---- MODULE Spec2Model ----
(***************************************************************************)
(* Content repository of the common layer (BaseRepository with its News    *)
(* and Gallery instantiations) over the single shared DynamoDB table,      *)
(* with the category registry, the pagination helpers, the S3 file         *)
(* service and the news and gallery handlers that write to the table.      *)
(*                                                                         *)
(* An item is a function from attribute names to values.  Timestamps       *)
(* (created_at, updated_at) are clock ticks; every other attribute is a    *)
(* string.  The table maps the ids that are present to their items.        *)
(***************************************************************************)
EXTENDS Integers, Sequences, FiniteSets, TLC

VARIABLES table, clock, last, registry, files, calls, request_counts

vars == <<table, clock, last, registry, files, calls, request_counts>>

(* ---------------------------- bounds ----------------------------------- *)

\* The clock (datetime.utcnow) runs from 1 to MaxClock.
MaxClock == 2

\* list_items / get_recent_items are called with limit in 1..MaxLimit.
MaxLimit == 2

(* ---------------------------- domains ---------------------------------- *)

\* Primary keys: uuid4 values and caller-chosen ids share one key space.
Ids == {"a", "b"}

\* item_id=None / '' (falsy): create_item draws a uuid.
NoId == ""

\* The content types of NewsRepository and GalleryRepository.
ContentTypes == {"news", "gallery"}

\* Python's None as a return value.
None == [none |-> TRUE]

\* The empty timestamp string '' of data.get('created_at', '').
NoTime == 0

Min(x, y) == IF x <= y THEN x ELSE y

\* dict.get(key, default)
Get(d, k, default) == IF k \in DOMAIN d THEN d[k] ELSE default

\* {**base, **over}: keys of over win.
Merge(base, over) ==
    [k \in (DOMAIN base) \cup (DOMAIN over) |->
        IF k \in DOMAIN over THEN over[k] ELSE base[k]]

\* The empty dict.
EmptyDict == [k \in {} |-> ""]

\* A dict with one key.
One(k, v) == [x \in {k} |-> v]

\* Input maps handed to create_item: ordinary fields, a type-specific
\* passthrough field, and maps that carry names of the fields create stamps.
CreateData ==
    { One("title", "t1"),
      Merge(One("title", "t1"), One("file_url", "f1")),
      Merge(One("title", "t1"), One("status", "draft")),
      Merge(One("title", "t1"), One("id", "b")),
      Merge(One("title", "t1"), One("content_type", "gallery")) }

\* Partial maps handed to update_item: whitelisted fields, none of them,
\* and a mix of whitelisted and protected names.
UpdateData ==
    { EmptyDict,
      One("title", "t2"),
      Merge(One("status", "draft"), One("file_url", "f2")),
      Merge(One("title", "t2"),
            Merge(One("status", "draft"),
                  Merge(One("id", "b"), One("content_type", "gallery")))) }

(* ------------------- storage collaborator (DynamoDB) ------------------- *)

\* table.put_item(Item=item): stores item under its key attribute,
\* replacing whatever the key held.
put_item(tbl, item) ==
    [k \in (DOMAIN tbl) \cup {item["id"]} |->
        IF k = item["id"] THEN item ELSE tbl[k]]

\* table.get_item(Key={'id': id}): a response with or without 'Item'.
get_item(tbl, id) == IF id \in DOMAIN tbl THEN tbl[id] ELSE None

\* table.update_item(Key, UpdateExpression='SET ...'): sets the attributes
\* on the stored item; on a missing key DynamoDB creates the item.
db_update_item(tbl, id, sets) ==
    [k \in (DOMAIN tbl) \cup {id} |->
        IF k = id
        THEN Merge(IF id \in DOMAIN tbl THEN tbl[id] ELSE One("id", id), sets)
        ELSE tbl[k]]

\* table.delete_item(Key={'id': id})
db_delete_item(tbl, id) == [k \in (DOMAIN tbl) \ {id} |-> tbl[k]]

\* The orders in which a scan can meet the stored keys.
ScanOrders(tbl) ==
    {s \in [1..Cardinality(DOMAIN tbl) -> DOMAIN tbl] :
        \A i, j \in DOMAIN s : i # j => s[i] # s[j]}

\* Position of key in the scan order (0 when the scan starts at the top).
StartIndex(order, startKey) ==
    IF startKey = NoId THEN 0
    ELSE IF \E i \in DOMAIN order : order[i] = startKey
         THEN CHOOSE i \in DOMAIN order : order[i] = startKey
         ELSE 0

\* The keys a scan with Limit evaluates: Limit counts evaluated items,
\* before the filter expression is applied.
Evaluated(order, startKey, limit) ==
    SubSeq(order, StartIndex(order, startKey) + 1,
           Min(StartIndex(order, startKey) + limit, Len(order)))

\* Attr('content_type').eq(ct) & Attr('category').eq(category)
FilterMatches(item, contentType, category) ==
    /\ "content_type" \in DOMAIN item
    /\ item["content_type"] = contentType
    /\ category # "" => ("category" \in DOMAIN item /\ item["category"] = category)

RECURSIVE FilterSeq(_, _, _, _)
FilterSeq(tbl, keys, contentType, category) ==
    IF keys = <<>> THEN <<>>
    ELSE LET rest == FilterSeq(tbl, Tail(keys), contentType, category)
         IN IF FilterMatches(tbl[Head(keys)], contentType, category)
            THEN <<tbl[Head(keys)]>> \o rest
            ELSE rest

\* table.scan(FilterExpression, Limit, ExclusiveStartKey)
scan(tbl, order, contentType, category, limit, startKey) ==
    LET ev == Evaluated(order, startKey, limit)
    IN [Items |-> FilterSeq(tbl, ev, contentType, category),
        LastEvaluatedKey |-> IF Len(ev) = limit THEN ev[Len(ev)] ELSE NoId]

(* ------------------------ repository hooks ----------------------------- *)

\* _get_updatable_fields (the same list for news and gallery)
get_updatable_fields(contentType) ==
    {"title", "content", "category", "image_url", "short_description"}

\* _clean_item_data: setdefault of image_url and short_description
clean_item_data(contentType, data) ==
    Merge(Merge(One("image_url", ""), One("short_description", "")), data)

\* created_at.split('T')[0]: the day a tick falls on (two ticks a day).
DateOf(t) == IF t # NoTime THEN (t + 1) \div 2 ELSE NoTime

\* _clean_output_data: the fixed output shape
clean_output_data(contentType, data) ==
    [id |-> Get(data, "id", ""),
     title |-> Get(data, "title", ""),
     content |-> Get(data, "content", ""),
     category |-> Get(data, "category", ""),
     created_at |-> Get(data, "created_at", NoTime),
     updated_at |-> Get(data, "updated_at", NoTime),
     status |-> Get(data, "status", ""),
     image_url |-> Get(data, "image_url", ""),
     short_description |-> Get(data, "short_description", ""),
     date |-> DateOf(Get(data, "created_at", NoTime))]

(* ------------------------- BaseRepository ------------------------------ *)

\* create_item(data, item_id): returns the id and the table after put_item.
\* uuid is the value uuid.uuid4() yields, now the value of utcnow().
create_item(contentType, data, item_id, uuid, now, tbl) ==
    LET id == IF item_id = NoId THEN uuid ELSE item_id
        item == clean_item_data(contentType,
                    Merge([id |-> id,
                           content_type |-> contentType,
                           created_at |-> now,
                           updated_at |-> now,
                           status |-> "published"], data))
    IN [table |-> put_item(tbl, item), result |-> id]

\* get_item_by_id without the content-type comparison.
get_item_by_id_NoTypeCheck(contentType, id, tbl) ==
    LET response == get_item(tbl, id)
    IN IF response = None THEN None
       ELSE clean_output_data(contentType, response)

\* get_item_by_id(item_id): the cleaned item, or None when the key is
\* missing or holds an item of another content type.
get_item_by_id(contentType, id, tbl) ==
    LET response == get_item(tbl, id)
    IN IF response = None THEN None
       ELSE IF Get(response, "content_type", "") # contentType THEN None
       ELSE clean_output_data(contentType, response)

\* The table as a view-counting get_item_by_id would leave it.
get_item_by_id_table_IncrementsView(contentType, id, increment_view, tbl) ==
    IF increment_view /\ get_item_by_id(contentType, id, tbl) # None
    THEN db_update_item(tbl, id,
             One("view_count", Get(tbl[id], "view_count", 0) + 1))
    ELSE tbl

\* The table after get_item_by_id(item_id, increment_view): the method
\* calls table.get_item and nothing else on the table; increment_view is
\* not read.
get_item_by_id_table(contentType, id, increment_view, tbl) == tbl

\* SET clauses built from every key of data, not only the updatable ones.
expression_values_AllFields(contentType, data, now) ==
    Merge(One("updated_at", now), data)

\* The SET clauses update_item builds: updated_at and the updatable
\* fields that data carries.
expression_values(contentType, data, now) ==
    Merge(One("updated_at", now),
          [f \in get_updatable_fields(contentType) \cap DOMAIN data |-> data[f]])

\* update_item without the nothing-to-update return: updated_at is
\* written even when data carries no updatable field.
update_item_AlwaysWrites(contentType, id, data, now, tbl) ==
    IF get_item_by_id(contentType, id, tbl) = None
    THEN [table |-> tbl, result |-> FALSE]
    ELSE [table |-> db_update_item(tbl, id,
                        expression_values(contentType, data, now)),
          result |-> TRUE]

\* update_item without the existence check.
update_item_NoExistenceCheck(contentType, id, data, now, tbl) ==
    IF Cardinality(DOMAIN expression_values(contentType, data, now)) = 1
    THEN [table |-> tbl, result |-> TRUE]
    ELSE [table |-> db_update_item(tbl, id,
                        expression_values(contentType, data, now)),
          result |-> TRUE]

\* update_item(item_id, data)
update_item(contentType, id, data, now, tbl) ==
    IF get_item_by_id(contentType, id, tbl) = None
    THEN [table |-> tbl, result |-> FALSE]
    ELSE IF Cardinality(DOMAIN expression_values(contentType, data, now)) = 1
    THEN [table |-> tbl, result |-> TRUE]
    ELSE [table |-> db_update_item(tbl, id,
                        expression_values(contentType, data, now)),
          result |-> TRUE]

\* delete_item that looks the key up without comparing the content type.
delete_item_AnyType(contentType, id, tbl) ==
    IF get_item(tbl, id) = None
    THEN [table |-> tbl, result |-> FALSE]
    ELSE [table |-> db_delete_item(tbl, id), result |-> TRUE]

\* delete_item without the existence check.
delete_item_NoExistenceCheck(contentType, id, tbl) ==
    [table |-> db_delete_item(tbl, id), result |-> TRUE]

\* delete_item(item_id)
delete_item(contentType, id, tbl) ==
    IF get_item_by_id(contentType, id, tbl) = None
    THEN [table |-> tbl, result |-> FALSE]
    ELSE [table |-> db_delete_item(tbl, id), result |-> TRUE]

\* One step of items.sort(key=created_at, reverse=True): x goes behind
\* every element whose key is not smaller (the sort is stable).
InsertDesc(s, x) ==
    LET n == Cardinality({i \in DOMAIN s : s[i]["created_at"] >= x["created_at"]})
    IN SubSeq(s, 1, n) \o <<x>> \o SubSeq(s, n + 1, Len(s))

RECURSIVE SortDesc(_, _)
SortDesc(sorted, rest) ==
    IF rest = <<>> THEN sorted
    ELSE SortDesc(InsertDesc(sorted, Head(rest)), Tail(rest))

\* [self._clean_output_data(item) for item in response['Items']]
CleanAll(contentType, items) ==
    [i \in DOMAIN items |-> clean_output_data(contentType, items[i])]

\* list_items(limit, category, last_evaluated_key); order is the order
\* in which this scan meets the keys.
list_items(contentType, limit, category, last_evaluated_key, order, tbl) ==
    LET response == scan(tbl, order, contentType, category, limit,
                         last_evaluated_key)
        items == SortDesc(<<>>, CleanAll(contentType, response.Items))
    IN [items |-> items,
        next_key |-> response.LastEvaluatedKey,
        total |-> Len(items)]

\* get_recent_items(limit) = list_items(limit=limit)['items'][:limit]
get_recent_items(contentType, limit, order, tbl) ==
    LET items == list_items(contentType, limit, "", NoId, order, tbl).items
    IN SubSeq(items, 1, Min(limit, Len(items)))

(* ------------------------- category registry --------------------------- *)

\* Category names are written in Latin script; each stands for the Korean
\* string of the source: center-news = 센터소식, program-news = 프로그램소식,
\* event-news = 행사소식, life-info = 생활정보, etc = 기타, notice = 공지사항,
\* question = 질문, suggestion = 건의, reference = 참고자료, seminar = 세미나,
\* schedule = 일정, main-news = 주요소식, policy-news = 정책소식,
\* business-news = 사업소식, press-release = 보도자료.

\* The elements of a list.
Range(s) == {s[i] : i \in DOMAIN s}

\* An Optional[str] that is a string; Python's None is the other case.
Some(v) == [value |-> v]

\* CATEGORY_DEFINITIONS as the module is imported.
CATEGORY_DEFINITIONS ==
    [news |-> [allowed_categories |-> <<"center-news", "program-news",
                                        "event-news", "life-info", "etc">>,
               default_category |-> "etc",
               required |-> FALSE],
     gallery |-> [allowed_categories |-> <<"notice", "question", "suggestion",
                                           "reference", "etc", "seminar",
                                           "schedule">>,
                  default_category |-> "notice",
                  required |-> FALSE]]

\* str.lower() on the content-type arguments that are passed.
lower(s) ==
    CASE s = "NEWS" -> "news"
      [] s = "Gallery" -> "gallery"
      [] OTHER -> s

\* str.strip() on the category arguments that are passed.
strip(s) ==
    CASE s = " etc " -> "etc"
      [] s = "  " -> ""
      [] OTHER -> s

\* ContentType(content_type.lower()) is a member of the enum; for any other
\* string the constructor raises ValueError, which every caller catches.
IsContentType(content_type) == lower(content_type) \in ContentTypes

get_allowed_categories_FallbackNews(content_type, defs) ==
    IF IsContentType(content_type)
    THEN defs[lower(content_type)].allowed_categories
    ELSE defs["news"].allowed_categories

get_allowed_categories(content_type, defs) ==
    IF IsContentType(content_type)
    THEN defs[lower(content_type)].allowed_categories
    ELSE <<>>

get_default_category(content_type, defs) ==
    IF IsContentType(content_type)
    THEN Some(defs[lower(content_type)].default_category)
    ELSE None

is_category_required(content_type, defs) ==
    IF IsContentType(content_type)
    THEN defs[lower(content_type)].required
    ELSE FALSE

\* 'not category': None and '' are falsy.
Falsy(category) == category = None \/ category = Some("")

validate_category_value_NoEmpty(content_type, category, defs) ==
    /\ category # None
    /\ category.value \in Range(get_allowed_categories(content_type, defs))

validate_category_value(content_type, category, defs) ==
    IF Falsy(category) THEN TRUE
    ELSE category.value \in Range(get_allowed_categories(content_type, defs))

normalize_category(content_type, category, defs) ==
    IF Falsy(category) \/ strip(category.value) = ""
    THEN IF is_category_required(content_type, defs)
         THEN get_default_category(content_type, defs)
         ELSE None
    ELSE LET normalized == Some(strip(category.value))
         IN IF validate_category_value(content_type, normalized, defs)
            THEN normalized
            ELSE None

\* The registry with the allowed list of content_enum replaced.
WithAllowed(defs, content_enum, categories) ==
    [defs EXCEPT ![content_enum].allowed_categories = categories]

add_category_AlwaysAppends(content_type, category, defs) ==
    IF ~IsContentType(content_type) THEN [defs |-> defs, result |-> FALSE]
    ELSE LET content_enum == lower(content_type)
         IN [defs |-> WithAllowed(defs, content_enum,
                         Append(defs[content_enum].allowed_categories, category)),
             result |-> TRUE]

add_category(content_type, category, defs) ==
    IF ~IsContentType(content_type) THEN [defs |-> defs, result |-> FALSE]
    ELSE LET content_enum == lower(content_type)
             current_categories == defs[content_enum].allowed_categories
         IN IF category \notin Range(current_categories)
            THEN [defs |-> WithAllowed(defs, content_enum,
                              Append(current_categories, category)),
                  result |-> TRUE]
            ELSE [defs |-> defs, result |-> FALSE]

\* list.remove(x): the list without the first occurrence of x.
ListRemove(s, x) ==
    LET i == CHOOSE j \in DOMAIN s :
                 s[j] = x /\ \A k \in 1..(j - 1) : s[k] # x
    IN SubSeq(s, 1, i - 1) \o SubSeq(s, i + 1, Len(s))

remove_category(content_type, category, defs) ==
    IF ~IsContentType(content_type) THEN [defs |-> defs, result |-> FALSE]
    ELSE LET content_enum == lower(content_type)
             current_categories == defs[content_enum].allowed_categories
         IN IF category \in Range(current_categories)
                 /\ Len(current_categories) > 1
            THEN [defs |-> WithAllowed(defs, content_enum,
                              ListRemove(current_categories, category)),
                  result |-> TRUE]
            ELSE [defs |-> defs, result |-> FALSE]

(* ----------------------------- actions --------------------------------- *)

\* The file service at start: no upload URL has been issued and no delete
\* request has been sent to the bucket.
NoFiles == [issued |-> {}, requested |-> {}]

\* request_counts = {} of a freshly decorated handler.
NoCounts == [c \in {} |-> [m \in {} |-> 0]]

\* No call is remembered.
NoCall == [op |-> "none"]

\* No concurrent invocation is in progress.
NoCalls == [p \in {} |-> NoCall]

\* Between calls: nothing is running; after remembers a delete or an
\* add_category that has just returned, so that the call following it can
\* be compared with it.
Idle(after) == [op |-> "idle", after |-> after]

Init ==
    /\ table = [k \in {} |-> EmptyDict]
    /\ clock = 1
    /\ last = Idle(NoCall)
    /\ registry = CATEGORY_DEFINITIONS
    /\ files = NoFiles
    /\ calls = NoCalls
    /\ request_counts = NoCounts

\* Time passes between calls.
Tick ==
    /\ last.op = "idle"
    /\ clock < MaxClock
    /\ clock' = clock + 1
    /\ UNCHANGED <<table, last, registry, files, calls, request_counts>>

\* uuid4 yields an id no stored item has.
FreshIds == Ids \ DOMAIN table

CreateItem ==
    /\ last.op = "idle"
    /\ \E ct \in ContentTypes, data \in CreateData, item_id \in Ids \cup {NoId} :
         \E uuid \in (IF item_id = NoId THEN FreshIds ELSE {NoId}) :
           LET r == create_item(ct, data, item_id, uuid, clock, table)
           IN /\ table' = r.table
              /\ last' = [op |-> "create", repo |-> ct, data |-> data,
                          item_id |-> item_id, now |-> clock,
                          result |-> r.result]
    /\ UNCHANGED <<clock, registry, files, calls, request_counts>>

GetItemById ==
    /\ last.op = "idle"
    /\ \E ct \in ContentTypes, id \in Ids, increment_view \in BOOLEAN :
         /\ table' = get_item_by_id_table(ct, id, increment_view, table)
         /\ last' = [op |-> "get", repo |-> ct, id |-> id,
                     increment_view |-> increment_view,
                     result |-> get_item_by_id(ct, id, table)]
    /\ UNCHANGED <<clock, registry, files, calls, request_counts>>

UpdateItem ==
    /\ last.op = "idle"
    /\ \E ct \in ContentTypes, id \in Ids, data \in UpdateData :
         LET r == update_item(ct, id, data, clock, table)
         IN /\ table' = r.table
            /\ last' = [op |-> "update", repo |-> ct, id |-> id, data |-> data,
                        now |-> clock, result |-> r.result]
    /\ UNCHANGED <<clock, registry, files, calls, request_counts>>

DeleteItem ==
    /\ last.op = "idle"
    /\ \E ct \in ContentTypes, id \in Ids :
         LET r == delete_item(ct, id, table)
         IN /\ table' = r.table
            /\ last' = [op |-> "delete", repo |-> ct, id |-> id,
                        result |-> r.result, prev |-> last.after]
    /\ UNCHANGED <<clock, registry, files, calls, request_counts>>

ListItems ==
    /\ last.op = "idle"
    /\ \E ct \in ContentTypes, limit \in 1..MaxLimit,
          order \in ScanOrders(table), startKey \in {NoId} \cup DOMAIN table :
         last' = [op |-> "list", repo |-> ct, limit |-> limit,
                  result |-> list_items(ct, limit, "", startKey, order, table)]
    /\ UNCHANGED <<table, clock, registry, files, calls, request_counts>>

GetRecentItems ==
    /\ last.op = "idle"
    /\ \E ct \in ContentTypes, limit \in 1..MaxLimit,
          order \in ScanOrders(table) :
         last' = [op |-> "recent", repo |-> ct, limit |-> limit,
                  result |-> get_recent_items(ct, limit, order, table)]
    /\ UNCHANGED <<table, clock, registry, files, calls, request_counts>>

\* The call returns to its caller; the next call can start.
Return ==
    /\ last.op # "idle"
    /\ last' = Idle(CASE last.op = "delete" ->
                         [op |-> "delete", repo |-> last.repo, id |-> last.id,
                          result |-> last.result]
                      [] last.op = "add_category" ->
                         [op |-> "add_category",
                          content_type |-> last.content_type,
                          category |-> last.category, result |-> last.result]
                      [] OTHER -> NoCall)
    /\ UNCHANGED <<table, clock, registry, files, calls, request_counts>>

Next ==
    \/ Tick
    \/ CreateItem
    \/ GetItemById
    \/ UpdateItem
    \/ DeleteItem
    \/ ListItems
    \/ GetRecentItems
    \/ Return

Spec == Init /\ [][Next]_vars

(* ---------------------- category registry: actions --------------------- *)

\* The content_type arguments: the two known types, one in another case,
\* and strings outside the enum.
TypeArgs == {"news", "gallery", "NEWS", "video", ""}

\* The category arguments of add_category / remove_category.
CategoryArgs == {"etc", "notice", "extra"}

\* The Optional[str] category arguments of validate_category_value and
\* normalize_category: None, empty, blank, padded and plain strings.
OptCategoryArgs == {None} \cup {Some(c) : c \in CategoryArgs \cup {"", "  ", " etc "}}

\* remove_category applied to each category of a list in turn.
RECURSIVE RemoveEach(_, _, _)
RemoveEach(defs, content_type, categories) ==
    IF categories = <<>> THEN defs
    ELSE RemoveEach(remove_category(content_type, Head(categories), defs).defs,
                    content_type, Tail(categories))

\* The registries the calls start from: the imported one, and the one left
\* after four news categories have been removed from it.
RegistryStates ==
    {CATEGORY_DEFINITIONS,
     RemoveEach(CATEGORY_DEFINITIONS, "news",
                <<"center-news", "program-news", "event-news", "life-info">>)}

InitRegistry ==
    /\ table = [k \in {} |-> EmptyDict]
    /\ clock = 1
    /\ last = Idle(NoCall)
    /\ registry \in RegistryStates
    /\ files = NoFiles
    /\ calls = NoCalls
    /\ request_counts = NoCounts

GetAllowedCategories ==
    /\ last.op = "idle"
    /\ \E content_type \in TypeArgs :
         last' = [op |-> "get_allowed_categories", content_type |-> content_type,
                  result |-> get_allowed_categories(content_type, registry)]
    /\ UNCHANGED <<table, clock, registry, files, calls, request_counts>>

GetDefaultCategory ==
    /\ last.op = "idle"
    /\ \E content_type \in TypeArgs :
         last' = [op |-> "get_default_category", content_type |-> content_type,
                  result |-> get_default_category(content_type, registry)]
    /\ UNCHANGED <<table, clock, registry, files, calls, request_counts>>

IsCategoryRequired ==
    /\ last.op = "idle"
    /\ \E content_type \in TypeArgs :
         last' = [op |-> "is_category_required", content_type |-> content_type,
                  result |-> is_category_required(content_type, registry)]
    /\ UNCHANGED <<table, clock, registry, files, calls, request_counts>>

ValidateCategoryValue ==
    /\ last.op = "idle"
    /\ \E content_type \in TypeArgs, category \in OptCategoryArgs :
         last' = [op |-> "validate_category_value",
                  content_type |-> content_type, category |-> category,
                  result |-> validate_category_value(content_type, category,
                                                     registry)]
    /\ UNCHANGED <<table, clock, registry, files, calls, request_counts>>

NormalizeCategory ==
    /\ last.op = "idle"
    /\ \E content_type \in TypeArgs, category \in OptCategoryArgs :
         last' = [op |-> "normalize_category",
                  content_type |-> content_type, category |-> category,
                  result |-> normalize_category(content_type, category,
                                                registry)]
    /\ UNCHANGED <<table, clock, registry, files, calls, request_counts>>

AddCategory ==
    /\ last.op = "idle"
    /\ \E content_type \in TypeArgs, category \in CategoryArgs :
         LET r == add_category(content_type, category, registry)
         IN /\ registry' = r.defs
            /\ last' = [op |-> "add_category", content_type |-> content_type,
                        category |-> category, result |-> r.result,
                        prev |-> last.after]
    /\ UNCHANGED <<table, clock, files, calls, request_counts>>

RemoveCategory ==
    /\ last.op = "idle"
    /\ \E content_type \in TypeArgs, category \in CategoryArgs :
         LET r == remove_category(content_type, category, registry)
         IN /\ registry' = r.defs
            /\ last' = [op |-> "remove_category", content_type |-> content_type,
                        category |-> category, result |-> r.result]
    /\ UNCHANGED <<table, clock, files, calls, request_counts>>

NextRegistry ==
    \/ GetAllowedCategories
    \/ GetDefaultCategory
    \/ IsCategoryRequired
    \/ ValidateCategoryValue
    \/ NormalizeCategory
    \/ AddCategory
    \/ RemoveCategory
    \/ Return

SpecRegistry == InitRegistry /\ [][NextRegistry]_vars

(* --------------------------- news handlers ----------------------------- *)

\* event['body'] that json.loads rejects.
InvalidJson == [invalid_json |-> TRUE]

\* A content string of more than 100 characters, and what
\* content[:100] + '...' makes of it.
LongContent == "long-content"
LongContentHead == "long-content[:100]..."

\* content[:100] + '...' if len(content) > 100 else content
Shortened(content) ==
    IF content = LongContent THEN LongContentHead ELSE content

\* f"news_{uuid4}"
NewsIdOf(uuid) ==
    CASE uuid = "a" -> "news_a"
      [] uuid = "b" -> "news_b"

NewsIds == {NewsIdOf(u) : u \in Ids}

\* The category list written into create_news and update_news.
valid_categories ==
    <<"main-news", "policy-news", "business-news", "notice", "press-release">>

\* create_response(status_code, body)
create_response(statusCode, body) == [statusCode |-> statusCode, body |-> body]

\* How the DynamoDB connection behaves during one request: the write goes
\* through, no resource / table object is obtained, or the table call
\* raises.
DbOutcomes == {"ok", "unavailable", "error"}

\* create_news(event, app_config): authorized is what verify_admin_token
\* returned for the event, body the request body, uuid and now the values
\* drawn for the new item.
create_news(authorized, body, uuid, now, db, tbl) ==
    IF ~authorized
    THEN [table |-> tbl,
          response |-> create_response(401, One("error", "Unauthorized"))]
    ELSE IF body = InvalidJson
    THEN [table |-> tbl,
          response |-> create_response(400, One("error", "Invalid JSON"))]
    ELSE
    LET title == Get(body, "title", "")
        content == Get(body, "content", "")
        category == Get(body, "category", "main-news")
        image_url == Get(body, "image_url", "")
        short_description == Get(body, "short_description", "")
        author == Get(body, "author", "admin")
    IN IF title = "" \/ content = ""
       THEN [table |-> tbl,
             response |-> create_response(400,
                              One("error", "Title and content required"))]
       ELSE IF category \notin Range(valid_categories)
       THEN [table |-> tbl,
             response |-> create_response(400, One("error", "Invalid category"))]
       ELSE
       LET new_news ==
               [id |-> NewsIdOf(uuid),
                content_type |-> "news",
                title |-> title,
                content |-> content,
                category |-> category,
                author |-> author,
                created_at |-> now,
                updated_at |-> now,
                view_count |-> 0,
                status |-> "published",
                image_url |-> image_url,
                short_description |-> IF short_description = ""
                                      THEN Shortened(content)
                                      ELSE short_description]
       IN [table |-> IF db = "ok" THEN put_item(tbl, new_news) ELSE tbl,
           response |-> create_response(201,
                            [message |-> "News created successfully",
                             news |-> new_news])]

\* The fields update_news copies from the body, in the order it tests them.
NewsUpdateFields ==
    {"title", "content", "category", "image_url", "short_description",
     "author", "status"}

\* update_news(news_id, event, app_config)
update_news(news_id, authorized, body, now, db, tbl) ==
    IF ~authorized
    THEN [table |-> tbl,
          response |-> create_response(401, One("error", "Unauthorized"))]
    ELSE IF body = InvalidJson
    THEN [table |-> tbl,
          response |-> create_response(400, One("error", "Invalid JSON"))]
    ELSE IF "category" \in DOMAIN body
            /\ body["category"] \notin Range(valid_categories)
    THEN [table |-> tbl,
          response |-> create_response(400, One("error", "Invalid category"))]
    ELSE IF "status" \in DOMAIN body
            /\ body["status"] \notin {"published", "draft"}
    THEN [table |-> tbl,
          response |-> create_response(400,
                           One("error", "Status must be published or draft"))]
    ELSE
    LET copied == [f \in NewsUpdateFields \cap DOMAIN body |-> body[f]]
        update_fields == Merge(copied, One("updated_at", now))
    IN IF DOMAIN copied = {}
       THEN [table |-> tbl,
             response |-> create_response(400,
                              One("error", "No fields to update"))]
       ELSE IF db = "unavailable"
       THEN [table |-> tbl,
             response |-> create_response(500,
                              One("error", "Database connection failed"))]
       ELSE IF db = "error"
       THEN [table |-> tbl,
             response |-> create_response(500,
                              One("error", "Database update failed"))]
       ELSE IF get_item(tbl, news_id) = None
       THEN [table |-> tbl,
             response |-> create_response(404, One("error", "News not found"))]
       ELSE IF Get(get_item(tbl, news_id), "content_type", "") # "news"
       THEN [table |-> tbl,
             response |-> create_response(404, One("error", "News not found"))]
       ELSE
       LET updated == db_update_item(tbl, news_id, update_fields)
       IN [table |-> updated,
           response |-> create_response(200,
                            [message |-> "News updated successfully",
                             news |-> updated[news_id]])]

\* Request bodies of POST /news.
CreateNewsBodies ==
    {InvalidJson,
     One("title", "t1"),
     [title |-> "t1", content |-> "c1"],
     [title |-> "t1", content |-> "c1", category |-> "etc"],
     [title |-> "t1", content |-> "c1", category |-> "notice"],
     [title |-> "t1", content |-> LongContent, category |-> "policy-news",
      image_url |-> "f1", author |-> "editor"],
     [title |-> "t1", content |-> "c1", category |-> "",
      short_description |-> "s1"]}

\* Request bodies of PUT /news/{id}.
UpdateNewsBodies ==
    {InvalidJson,
     EmptyDict,
     One("category", "etc"),
     [category |-> "press-release", status |-> "draft"],
     One("status", "archived")}

\* Repository data that carries a category; create_item and update_item
\* take it as they take any other field.
CategoryData ==
    {[title |-> "t1", category |-> "etc"],
     [title |-> "t1", category |-> "extra"],
     [title |-> "t1", category |-> ""]}

CreateNews ==
    /\ last.op = "idle"
    /\ \E authorized \in BOOLEAN, body \in CreateNewsBodies, uuid \in Ids,
          db \in DbOutcomes :
         /\ NewsIdOf(uuid) \notin DOMAIN table
         /\ LET r == create_news(authorized, body, uuid, clock, db, table)
            IN /\ table' = r.table
               /\ last' = [op |-> "create_news", authorized |-> authorized,
                           body |-> body, db |-> db, result |-> r.response]
    /\ UNCHANGED <<clock, registry, files, calls, request_counts>>

UpdateNews ==
    /\ last.op = "idle"
    /\ \E news_id \in Ids \cup NewsIds, authorized \in BOOLEAN,
          body \in UpdateNewsBodies, db \in DbOutcomes :
         LET r == update_news(news_id, authorized, body, clock, db, table)
         IN /\ table' = r.table
            /\ last' = [op |-> "update_news", id |-> news_id,
                        authorized |-> authorized, body |-> body, db |-> db,
                        result |-> r.response]
    /\ UNCHANGED <<clock, registry, files, calls, request_counts>>

\* NewsRepository / GalleryRepository create_item with a category in data.
CreateItemInCategory ==
    /\ last.op = "idle"
    /\ \E ct \in ContentTypes, data \in CategoryData, uuid \in FreshIds :
         LET r == create_item(ct, data, NoId, uuid, clock, table)
         IN /\ table' = r.table
            /\ last' = [op |-> "create", repo |-> ct, data |-> data,
                        item_id |-> NoId, now |-> clock, result |-> r.result]
    /\ UNCHANGED <<clock, registry, files, calls, request_counts>>

\* NewsRepository / GalleryRepository update_item with a category in data.
UpdateItemCategory ==
    /\ last.op = "idle"
    /\ \E ct \in ContentTypes, id \in Ids, data \in CategoryData :
         LET r == update_item(ct, id, data, clock, table)
         IN /\ table' = r.table
            /\ last' = [op |-> "update", repo |-> ct, id |-> id, data |-> data,
                        now |-> clock, result |-> r.result]
    /\ UNCHANGED <<clock, registry, files, calls, request_counts>>

NextNews ==
    \/ CreateNews
    \/ UpdateNews
    \/ CreateItemInCategory
    \/ UpdateItemCategory
    \/ Return

SpecNews == Init /\ [][NextNews]_vars

(* ----------------------------- pagination ------------------------------ *)

\* paginate_list is called on lists of at most MaxItems items, with page in
\* 1..MaxPage and limit in 1..MaxPageSize.
MaxItems == 4
MaxPage == 3
MaxPageSize == 3

\* validate_pagination_params: the ceiling of limit and the defaults of an
\* absent limit and an absent page.
LimitCeiling == 50
DefaultLimit == 10
DefaultPage == 1

\* items[start:stop] for 0 <= start <= stop.
Slice(items, start, stop) ==
    SubSeq(items, start + 1, Min(stop, Len(items)))

\* paginate_list with the window starting at page * limit.
paginate_list_OffsetFromPage(items, page, limit) ==
    LET total_count == Len(items)
        total_pages == (total_count + limit - 1) \div limit
        offset == page * limit
    IN [items |-> Slice(items, offset, offset + limit),
        pagination |-> [current_page |-> page,
                        total_pages |-> total_pages,
                        total_count |-> total_count,
                        limit |-> limit,
                        has_next |-> page < total_pages,
                        has_prev |-> page > 1]]

\* paginate_list(items, page, limit), for page >= 1 and limit >= 1.
paginate_list(items, page, limit) ==
    LET total_count == Len(items)
        total_pages == (total_count + limit - 1) \div limit
        offset == (page - 1) * limit
    IN [items |-> Slice(items, offset, offset + limit),
        pagination |-> [current_page |-> page,
                        total_pages |-> total_pages,
                        total_count |-> total_count,
                        limit |-> limit,
                        has_next |-> page < total_pages,
                        has_prev |-> page > 1]]

\* A page or limit argument: None, an int, or a str given by its characters.
IntArg(n) == [int |-> n]
StrArg(chars) == [str |-> chars]

Digits == {"0", "1", "2", "3", "4", "5", "6", "7", "8", "9"}

DigitValue(c) ==
    CASE c = "0" -> 0 [] c = "1" -> 1 [] c = "2" -> 2 [] c = "3" -> 3
      [] c = "4" -> 4 [] c = "5" -> 5 [] c = "6" -> 6 [] c = "7" -> 7
      [] c = "8" -> 8 [] c = "9" -> 9

\* The value of a non-empty run of decimal digits.
RECURSIVE DecimalValue(_)
DecimalValue(chars) ==
    IF chars = <<>> THEN 0
    ELSE 10 * DecimalValue(SubSeq(chars, 1, Len(chars) - 1))
         + DigitValue(chars[Len(chars)])

\* str.strip() of surrounding blanks, as int() does before parsing.
RECURSIVE StripBlanks(_)
StripBlanks(chars) ==
    IF chars # <<>> /\ Head(chars) = " " THEN StripBlanks(Tail(chars))
    ELSE IF chars # <<>> /\ chars[Len(chars)] = " "
    THEN StripBlanks(SubSeq(chars, 1, Len(chars) - 1))
    ELSE chars

\* int(str): an optional sign followed by decimal digits, blanks around it
\* ignored; anything else raises ValueError.
ParseInt(chars) ==
    LET s == StripBlanks(chars)
        signed == s # <<>> /\ Head(s) \in {"-", "+"}
        digits == IF signed THEN Tail(s) ELSE s
    IN IF digits = <<>> \/ \E i \in DOMAIN digits : digits[i] \notin Digits
       THEN [ok |-> FALSE]
       ELSE [ok |-> TRUE,
             value |-> IF signed /\ Head(s) = "-"
                       THEN 0 - DecimalValue(digits)
                       ELSE DecimalValue(digits)]

\* Python truthiness of an argument: None, 0 and '' are falsy.
Truthy(arg) ==
    /\ arg # None
    /\ arg # IntArg(0)
    /\ arg # StrArg(<<>>)

\* int(arg) for an int or a str.
ToInt(arg) ==
    IF "int" \in DOMAIN arg THEN [ok |-> TRUE, value |-> arg.int]
    ELSE ParseInt(arg.str)

\* What a call of validate_pagination_params ends with.
Raised(exception) == [raised |-> exception]
Returned(page, limit) == [page |-> page, limit |-> limit]

\* validate_pagination_params(page, limit)
validate_pagination_params(page, limit) ==
    LET page_int == IF Truthy(page) THEN ToInt(page)
                    ELSE [ok |-> TRUE, value |-> DefaultPage]
        limit_int == IF Truthy(limit) THEN ToInt(limit)
                     ELSE [ok |-> TRUE, value |-> DefaultLimit]
    IN IF ~page_int.ok \/ ~limit_int.ok THEN Raised("ValidationError")
       ELSE IF page_int.value < 1 THEN Raised("ValidationError")
       ELSE IF limit_int.value < 1 THEN Raised("ValidationError")
       ELSE Returned(page_int.value,
                     IF limit_int.value > LimitCeiling THEN LimitCeiling
                     ELSE limit_int.value)

\* The strictly increasing lists over 1..MaxItems: the sorted item lists.
SortedLists ==
    {s \in UNION {[1..n -> 1..MaxItems] : n \in 0..MaxItems} :
        \A i \in 1..(Len(s) - 1) : s[i] < s[i + 1]}

\* page and limit arguments: absent, empty, integers and strings around the
\* limits 1 and LimitCeiling, and strings that are no integers.
ParamArgs ==
    {None, StrArg(<<>>)}
    \cup {IntArg(n) : n \in {0 - 1, 0, 1, 2, LimitCeiling, LimitCeiling + 1}}
    \cup {StrArg(c) : c \in {<<"0">>, <<"-", "1">>, <<"1">>, <<" ", "7", " ">>,
                              <<"5", "0">>, <<"1", "0", "0">>,
                              <<"a", "b", "c">>, <<"1", ".", "5">>}}

PaginateList ==
    /\ last.op = "idle"
    /\ \E items \in SortedLists, page \in 1..MaxPage, limit \in 1..MaxPageSize :
         last' = [op |-> "paginate_list", items |-> items, page |-> page,
                  limit |-> limit, result |-> paginate_list(items, page, limit)]
    /\ UNCHANGED <<table, clock, registry, files, calls, request_counts>>

ValidatePaginationParams ==
    /\ last.op = "idle"
    /\ \E page \in ParamArgs, limit \in ParamArgs :
         last' = [op |-> "validate_pagination_params", page |-> page,
                  limit |-> limit,
                  result |-> validate_pagination_params(page, limit)]
    /\ UNCHANGED <<table, clock, registry, files, calls, request_counts>>

NextPaging ==
    \/ PaginateList
    \/ ValidatePaginationParams
    \/ Return

SpecPaging == Init /\ [][NextPaging]_vars

(* --------------------------- file storage ------------------------------ *)

\* A string of the file service (bucket name, key, URL) is the sequence of
\* its pieces; pieces are joined by \o.  The literals the code searches for
\* are pieces of their own, so that 'in' and split work on the positions of
\* the pieces.

\* delete_objects takes the first BatchLimit keys of a list.
BatchLimit == 1000

\* s3_bucket_name of the deployment.
bucket_name == <<"bkt">>

\* needle in haystack
Contains(haystack, needle) ==
    \E i \in 0..(Len(haystack) - Len(needle)) :
        SubSeq(haystack, i + 1, i + Len(needle)) = needle

\* haystack.split(needle, 1)[1]: what follows the first occurrence.
SplitAfter(haystack, needle) ==
    LET i == CHOOSE j \in 0..(Len(haystack) - Len(needle)) :
                 /\ SubSeq(haystack, j + 1, j + Len(needle)) = needle
                 /\ \A k \in 0..(j - 1) :
                       SubSeq(haystack, k + 1, k + Len(needle)) # needle
    IN SubSeq(haystack, i + Len(needle) + 1, Len(haystack))

\* f"{bucket_name}.s3.amazonaws.com/"
VirtualHost(bucket) == bucket \o <<".", "s3.amazonaws.com/">>

\* f"s3.amazonaws.com/{bucket_name}/"
PathHost(bucket) == <<"s3.amazonaws.com/">> \o bucket \o <<"/">>

\* generate_presigned_upload_url(content_type, file_extension, folder):
\* timestamp and unique_id are the values drawn for the key, s3 is how
\* generate_presigned_url ends.
generate_presigned_upload_url(file_extension, folder, timestamp, unique_id, s3) ==
    LET extension == IF file_extension = None \/ file_extension = Some(<<>>)
                     THEN <<>>
                     ELSE IF Head(file_extension.value) # "."
                     THEN <<".">> \o file_extension.value
                     ELSE file_extension.value
        file_key == folder \o <<"/", timestamp, "_", unique_id>> \o extension
        file_url == <<"https://">> \o VirtualHost(bucket_name) \o file_key
    IN IF s3 = "ClientError" THEN [raised |-> "Exception"]
       ELSE [file_key |-> file_key, file_url |-> file_url]

\* extract_file_key_from_url(file_url)
extract_file_key_from_url(file_url) ==
    IF file_url = None \/ file_url = Some(<<>>) THEN None
    ELSE IF Contains(file_url.value, VirtualHost(bucket_name))
    THEN Some(SplitAfter(file_url.value, VirtualHost(bucket_name)))
    ELSE IF Contains(file_url.value, PathHost(bucket_name))
    THEN Some(SplitAfter(file_url.value, PathHost(bucket_name)))
    ELSE None

\* file_keys[:1000]
FirstBatch(file_keys) == SubSeq(file_keys, 1, Min(BatchLimit, Len(file_keys)))

\* How s3_client.delete_objects ends for the keys sent: a response that
\* lists some of them under Deleted and some under Errors, a ClientError,
\* or another botocore exception (a connection failure, a parameter
\* validation failure).
StorageOutcomes(sent) ==
    {[kind |-> "response", Deleted |-> d, Errors |-> e] :
        d \in SUBSET Range(sent), e \in SUBSET Range(sent)}
    \cup {[kind |-> "ClientError"], [kind |-> "BotoCoreError"]}

\* delete_files(file_keys): the results dict as [returned |-> dict], or the
\* exception that leaves the method.
delete_files(file_keys, outcome) ==
    IF file_keys = <<>> THEN [returned |-> [k \in {} |-> FALSE]]
    ELSE IF outcome.kind = "BotoCoreError" THEN [raised |-> "BotoCoreError"]
    ELSE IF outcome.kind = "ClientError"
    THEN [returned |-> [k \in Range(file_keys) |-> FALSE]]
    ELSE [returned |->
            [k \in Range(file_keys) \cup outcome.Deleted \cup outcome.Errors |->
                IF k \in outcome.Errors THEN FALSE
                ELSE k \in outcome.Deleted]]

\* delete_gallery(gallery_id, event, app_config): the table and the delete
\* requests sent to the bucket afterwards, and the response.
delete_gallery(gallery_id, authorized, db, tbl, requested) ==
    IF ~authorized
    THEN [table |-> tbl, requested |-> requested,
          response |-> create_response(401, One("error", "Unauthorized"))]
    ELSE IF db = "unavailable"
    THEN [table |-> tbl, requested |-> requested,
          response |-> create_response(500,
                           One("error", "Database connection failed"))]
    ELSE IF db = "error"
    THEN [table |-> tbl, requested |-> requested,
          response |-> create_response(500,
                           One("error", "Database deletion failed"))]
    ELSE IF get_item(tbl, gallery_id) = None
    THEN [table |-> tbl, requested |-> requested,
          response |-> create_response(404,
                           One("error", "Gallery item not found"))]
    ELSE IF Get(get_item(tbl, gallery_id), "content_type", "") # "gallery"
    THEN [table |-> tbl, requested |-> requested,
          response |-> create_response(404,
                           One("error", "Gallery item not found"))]
    ELSE LET deleted_gallery == get_item(tbl, gallery_id)
         IN [table |-> db_delete_item(tbl, gallery_id),
             requested |-> requested,
             response |-> create_response(200,
                  [message |-> "Gallery item deleted successfully",
                   deleted_gallery |->
                      [id |-> Get(deleted_gallery, "id", ""),
                       title |-> Get(deleted_gallery, "title", ""),
                       category |-> Get(deleted_gallery, "category", "archive"),
                       author |-> Get(deleted_gallery, "author", ""),
                       created_at |-> Get(deleted_gallery, "created_at", "")]])]

\* Key lists: empty, one key, two keys, one key twice, and a list one
\* longer than a batch.
KeyLists ==
    {<<>>,
     << <<"uploads", "/", "1.jpg">> >>,
     << <<"uploads", "/", "1.jpg">>, <<"uploads", "/", "2.png">> >>,
     << <<"uploads", "/", "1.jpg">>, <<"uploads", "/", "1.jpg">> >>,
     [i \in 1..(BatchLimit + 1) |->
         IF i <= BatchLimit THEN <<"uploads", "/", "1.jpg">>
         ELSE <<"uploads", "/", "2.png">>]}

\* folder arguments: the default, and one that repeats the bucket's host.
FolderArgs == {<<"uploads">>, <<"x", "/">> \o VirtualHost(bucket_name) \o <<"y">>}

\* file_extension arguments: None, without and with the leading dot.
ExtensionArgs == {None, Some(<<"jpg">>), Some(<<".", "png">>)}

\* URLs that are not issued by this service: empty, another host, this
\* bucket in path style, a bucket whose name ends with this bucket's name,
\* and another bucket holding a key that starts with this bucket's name.
UrlArgs ==
    {None,
     Some(<<>>),
     Some(<<"https://", "cdn.example.com/", "img.jpg">>),
     Some(<<"https://">> \o PathHost(bucket_name) \o <<"docs", "/", "f.pdf">>),
     Some(<<"https://", "my-">> \o VirtualHost(bucket_name) \o <<"img.jpg">>),
     Some(<<"https://", "other", ".", "s3.amazonaws.com/">> \o bucket_name
          \o <<"/", "img.jpg">>)}

\* s.startswith(prefix)
StartsWith(s, prefix) ==
    /\ Len(s) >= Len(prefix)
    /\ SubSeq(s, 1, Len(prefix)) = prefix

\* The URL names an object of this deployment's bucket: the host right
\* after the scheme is the bucket's virtual host, or the S3 host followed
\* by the bucket as first path segment.
PointsAtBucket(url) ==
    \/ StartsWith(url, <<"https://">> \o VirtualHost(bucket_name))
    \/ StartsWith(url, <<"https://">> \o PathHost(bucket_name))

\* Gallery items as create_gallery stores them, with an image_url of this
\* bucket, of another host, and without one.
GalleryItem(id, image_url) ==
    [id |-> id, content_type |-> "gallery", title |-> "t1", content |-> "c1",
     category |-> "archive", author |-> "admin", created_at |-> 1,
     updated_at |-> 1, view_count |-> 0, status |-> "published",
     image_url |-> image_url, short_description |-> "c1"]

ImageUrls ==
    {<<>>,
     <<"https://", "cdn.example.com/", "img.jpg">>,
     <<"https://">> \o VirtualHost(bucket_name) \o <<"gallery", "/", "img.jpg">>}

\* The tables the file specification starts from: item a is a gallery item
\* with any of the image URLs, item b a gallery item or a news item with an
\* image of this bucket.
GalleryTables ==
    {[id \in Ids |->
        IF id = "a" THEN GalleryItem("a", ua)
        ELSE [GalleryItem("b", <<"https://">> \o VirtualHost(bucket_name)
                                  \o <<"news", "/", "img.jpg">>)
                EXCEPT !.content_type = tb]] :
        ua \in ImageUrls, tb \in ContentTypes}

InitFiles ==
    /\ table \in GalleryTables
    /\ clock = 1
    /\ last = Idle(NoCall)
    /\ registry = CATEGORY_DEFINITIONS
    /\ files = NoFiles
    /\ calls = NoCalls
    /\ request_counts = NoCounts

GeneratePresignedUploadUrl ==
    /\ last.op = "idle"
    /\ \E file_extension \in ExtensionArgs, folder \in FolderArgs,
          s3 \in {"ok", "ClientError"} :
         LET r == generate_presigned_upload_url(file_extension, folder,
                                                "20240101_120000", "1a2b3c4d", s3)
         IN /\ files' = IF s3 = "ok"
                        THEN [files EXCEPT !.issued = @ \cup {r}]
                        ELSE files
            /\ last' = [op |-> "generate_presigned_upload_url",
                        file_extension |-> file_extension, folder |-> folder,
                        result |-> r]
    /\ UNCHANGED <<table, clock, registry, calls, request_counts>>

ExtractFileKeyFromUrl ==
    /\ last.op = "idle"
    /\ \E file_url \in UrlArgs \cup {Some(i.file_url) : i \in files.issued} :
         last' = [op |-> "extract_file_key_from_url", file_url |-> file_url,
                  result |-> extract_file_key_from_url(file_url)]
    /\ UNCHANGED <<table, clock, registry, files, calls, request_counts>>

DeleteFiles ==
    /\ last.op = "idle"
    /\ \E file_keys \in KeyLists :
         \E outcome \in StorageOutcomes(FirstBatch(file_keys)) :
           /\ files' = IF file_keys = <<>> THEN files
                       ELSE [files EXCEPT
                               !.requested = @ \cup Range(FirstBatch(file_keys))]
           /\ last' = [op |-> "delete_files", file_keys |-> file_keys,
                       outcome |-> outcome,
                       result |-> delete_files(file_keys, outcome)]
    /\ UNCHANGED <<table, clock, registry, calls, request_counts>>

DeleteGallery ==
    /\ last.op = "idle"
    /\ \E gallery_id \in Ids, authorized \in BOOLEAN, db \in DbOutcomes :
         LET r == delete_gallery(gallery_id, authorized, db, table,
                                 files.requested)
         IN /\ table' = r.table
            /\ files' = [files EXCEPT !.requested = r.requested]
            /\ last' = [op |-> "delete_gallery", id |-> gallery_id,
                        authorized |-> authorized, db |-> db,
                        item |-> get_item(table, gallery_id),
                        result |-> r.response]
    /\ UNCHANGED <<clock, registry, calls, request_counts>>

NextFiles ==
    \/ GeneratePresignedUploadUrl
    \/ ExtractFileKeyFromUrl
    \/ DeleteFiles
    \/ DeleteGallery
    \/ Return

SpecFiles == InitFiles /\ [][NextFiles]_vars

(* ------------- concurrent invocations of update and delete ------------- *)

\* The invocations that run side by side, each in its own Lambda instance
\* against the one DynamoDB table.
Procs == {"p1", "p2"}

\* The tables the concurrent invocations start from: one item, stored by
\* create_item.
RaceTables ==
    {create_item(ct, data, NoId, id, 1, [k \in {} |-> EmptyDict]).table :
        ct \in ContentTypes, data \in CreateData, id \in Ids}

InitRace ==
    /\ table \in RaceTables
    /\ clock = 1
    /\ last = Idle(NoCall)
    /\ registry = CATEGORY_DEFINITIONS
    /\ files = NoFiles
    /\ calls = NoCalls
    /\ request_counts = NoCounts

\* calls with the invocation of p set to call.
WithCall(p, call) ==
    [q \in (DOMAIN calls) \cup {p} |-> IF q = p THEN call ELSE calls[q]]

\* An invocation enters update_item(item_id, data); existed records whether
\* its repository could see the item at that moment.
StartUpdate(p) ==
    /\ p \notin DOMAIN calls
    /\ \E ct \in ContentTypes, id \in Ids, data \in UpdateData :
         calls' = WithCall(p, [op |-> "update", repo |-> ct, id |-> id,
                               data |-> data, pc |-> "check",
                               existed |-> get_item_by_id(ct, id, table) # None,
                               result |-> FALSE])
    /\ UNCHANGED <<table, clock, last, registry, files, request_counts>>

\* An invocation enters delete_item(item_id).
StartDelete(p) ==
    /\ p \notin DOMAIN calls
    /\ \E ct \in ContentTypes, id \in Ids :
         calls' = WithCall(p, [op |-> "delete", repo |-> ct, id |-> id,
                               data |-> EmptyDict, pc |-> "check",
                               existed |-> get_item_by_id(ct, id, table) # None,
                               result |-> FALSE])
    /\ UNCHANGED <<table, clock, last, registry, files, request_counts>>

\* existing_item = self.get_item_by_id(item_id): the read both methods
\* start with. A missing item ends the call with False; an update with
\* nothing to set ends with True; otherwise the write is still to come.
CheckExisting(p) ==
    /\ p \in DOMAIN calls
    /\ calls[p].pc = "check"
    /\ LET c == calls[p]
           missing == get_item_by_id(c.repo, c.id, table) = None
           nothing == /\ c.op = "update"
                      /\ Cardinality(DOMAIN expression_values(c.repo, c.data,
                                                              clock)) = 1
       IN calls' = WithCall(p,
             IF missing THEN [c EXCEPT !.pc = "done", !.result = FALSE]
             ELSE IF nothing THEN [c EXCEPT !.pc = "done", !.result = TRUE]
             ELSE [c EXCEPT !.pc = "write"])
    /\ UNCHANGED <<table, clock, last, registry, files, request_counts>>

\* self.table.update_item(Key, UpdateExpression, ...) and return True.
WriteUpdate(p) ==
    /\ p \in DOMAIN calls
    /\ calls[p].pc = "write"
    /\ calls[p].op = "update"
    /\ table' = db_update_item(table, calls[p].id,
                    expression_values(calls[p].repo, calls[p].data, clock))
    /\ calls' = WithCall(p, [calls[p] EXCEPT !.pc = "done", !.result = TRUE])
    /\ UNCHANGED <<clock, last, registry, files, request_counts>>

\* self.table.delete_item(Key) and return True.
WriteDelete(p) ==
    /\ p \in DOMAIN calls
    /\ calls[p].pc = "write"
    /\ calls[p].op = "delete"
    /\ table' = db_delete_item(table, calls[p].id)
    /\ calls' = WithCall(p, [calls[p] EXCEPT !.pc = "done", !.result = TRUE])
    /\ UNCHANGED <<clock, last, registry, files, request_counts>>

NextRace ==
    \E p \in Procs :
        \/ StartUpdate(p)
        \/ StartDelete(p)
        \/ CheckExisting(p)
        \/ WriteUpdate(p)
        \/ WriteDelete(p)

SpecRace == InitRace /\ [][NextRace]_vars

(* --------------------- errors and storage failures --------------------- *)

\* The exceptions a handler can hand to handle_api_error. base is the
\* class isinstance recognises: APIError for the classes of
\* error_handlers.py, BlogException for those of exceptions.py (which
\* derive from Exception only), ValueError, KeyError, or a plain Exception.
\* message is the text split into pieces.
APIErrors ==
    {[base |-> "APIError", class |-> "APIError", message |-> <<"m1">>,
      status_code |-> 500, error_code |-> "INTERNAL_ERROR"],
     [base |-> "APIError", class |-> "ValidationError", message |-> <<"m1">>,
      status_code |-> 400, error_code |-> "VALIDATION_ERROR"],
     [base |-> "APIError", class |-> "NotFoundError",
      message |-> <<"News", " not found: ", "a">>,
      status_code |-> 404, error_code |-> "NOT_FOUND"],
     [base |-> "APIError", class |-> "UnauthorizedError",
      message |-> <<"Unauthorized">>,
      status_code |-> 401, error_code |-> "UNAUTHORIZED"],
     [base |-> "APIError", class |-> "ForbiddenError",
      message |-> <<"Forbidden">>,
      status_code |-> 403, error_code |-> "FORBIDDEN"],
     [base |-> "APIError", class |-> "ConflictError", message |-> <<"m1">>,
      status_code |-> 409, error_code |-> "CONFLICT"]}

BlogExceptions ==
    {[base |-> "BlogException", class |-> "ValidationError",
      message |-> <<"Missing required fields: ", "title">>, status_code |-> 400],
     [base |-> "BlogException", class |-> "ResourceNotFoundError",
      message |-> <<"Item not found: ", "a">>, status_code |-> 404],
     [base |-> "BlogException", class |-> "DatabaseError",
      message |-> <<"Failed to get item: ", "m1">>, status_code |-> 500]}

BuiltinErrors ==
    {[base |-> "ValueError", class |-> "ValueError", message |-> <<"m1">>],
     [base |-> "KeyError", class |-> "KeyError", message |-> <<"'title'">>],
     [base |-> "Exception", class |-> "RuntimeError", message |-> <<"m1">>]}

Errors == APIErrors \cup BlogExceptions \cup BuiltinErrors

\* response.create_error_response(status_code, message, details, error_code):
\* the body carries message and status_code, the code and the details
\* when they are truthy, and a timestamp; the first argument becomes the
\* response's statusCode.
create_error_response(status_code, message, details, error_code, now) ==
    create_response(status_code,
        [success |-> FALSE,
         error |-> Merge(Merge([message |-> message, status_code |-> status_code],
                               IF Truthy(error_code)
                               THEN One("code", error_code) ELSE EmptyDict),
                         IF Truthy(details)
                         THEN One("details", details) ELSE EmptyDict),
         timestamp |-> now])

\* handle_api_error(error): every branch calls create_error_response with
\* the positional arguments (message, status, code).
handle_api_error(error, now) ==
    IF error.base = "APIError"
    THEN create_error_response(StrArg(error.message), IntArg(error.status_code),
                               StrArg(<<error.error_code>>), None, now)
    ELSE IF error.base = "ValueError"
    THEN create_error_response(StrArg(error.message), IntArg(400),
                               StrArg(<<"VALIDATION_ERROR">>), None, now)
    ELSE IF error.base = "KeyError"
    THEN create_error_response(
             StrArg(<<"Missing required field: ">> \o error.message),
             IntArg(400), StrArg(<<"MISSING_FIELD">>), None, now)
    ELSE create_error_response(StrArg(<<"Internal server error">>), IntArg(500),
                               StrArg(<<"INTERNAL_ERROR">>), None, now)

\* How the table answers during one repository call.
StorageOutcome == {"ok", "error"}

\* A repository method under a storage outcome: each method body is
\* 'try: ... except Exception as e: logger.error(...); raise', so a table
\* call that raises ends the method with that exception; otherwise it
\* returns r.
propagate(db, r, tbl) ==
    IF db = "ok" THEN [table |-> r.table, result |-> Some(r.result)]
    ELSE [table |-> tbl, result |-> Raised("ClientError")]

\* The view counts the table is followed up to.
MaxViews == 1

\* The ids get_news_detail is asked for: stored ones and one of the ids
\* get_sample_news_detail knows.
DetailIds == Ids \cup {"news_1"}

\* get_sample_news_detail(news_id)
get_sample_news_detail(news_id) ==
    IF news_id = "news_1"
    THEN create_response(200,
             [id |-> "news_1", title |-> "sample-1", category |-> "main-news",
              author |-> "planning", view_count |-> 157,
              status |-> "published", sample |-> TRUE])
    ELSE create_response(404, [error |-> "News not found"])

\* get_news_detail(news_id): without a DynamoDB resource or table, and on
\* any exception, it answers from get_sample_news_detail; otherwise it
\* reads the item, adds one to view_count and answers 200.
get_news_detail(news_id, db, tbl) ==
    IF db = "unavailable"
    THEN [table |-> tbl, response |-> get_sample_news_detail(news_id)]
    ELSE IF db = "error"
    THEN [table |-> tbl,
          response |->
             IF get_sample_news_detail(news_id).statusCode = 200
             THEN get_sample_news_detail(news_id)
             ELSE create_response(500, [error |-> "Error getting news detail"])]
    ELSE IF \/ news_id \notin DOMAIN tbl
            \/ Get(tbl[news_id], "content_type", "") # "news"
    THEN [table |-> tbl, response |-> create_response(404, [error |-> "News not found"])]
    ELSE [table |-> [tbl EXCEPT ![news_id] =
                        Merge(tbl[news_id],
                              One("view_count",
                                  Get(tbl[news_id], "view_count", 0) + 1))],
          response |->
             create_response(200,
                 [id |-> news_id,
                  title |-> Get(tbl[news_id], "title", ""),
                  category |-> Get(tbl[news_id], "category", "main-news"),
                  author |-> Get(tbl[news_id], "author", ""),
                  view_count |-> Get(tbl[news_id], "view_count", 0) + 1,
                  status |-> Get(tbl[news_id], "status", "published"),
                  sample |-> FALSE])]

HandleApiError ==
    /\ last.op = "idle"
    /\ \E error \in Errors :
         last' = [op |-> "handle_api_error", error |-> error,
                  result |-> handle_api_error(error, clock)]
    /\ UNCHANGED <<table, clock, registry, files, calls, request_counts>>

CreateItemStorage ==
    /\ last.op = "idle"
    /\ \E ct \in ContentTypes, data \in CreateData, uuid \in FreshIds,
          db \in StorageOutcome :
         LET r == propagate(db, create_item(ct, data, NoId, uuid, clock, table),
                            table)
         IN /\ table' = r.table
            /\ last' = [op |-> "create", repo |-> ct, db |-> db,
                        result |-> r.result]
    /\ UNCHANGED <<clock, registry, files, calls, request_counts>>

GetItemStorage ==
    /\ last.op = "idle"
    /\ \E ct \in ContentTypes, id \in Ids, db \in StorageOutcome :
         LET r == propagate(db,
                      [table |-> get_item_by_id_table(ct, id, FALSE, table),
                       result |-> get_item_by_id(ct, id, table)], table)
         IN /\ table' = r.table
            /\ last' = [op |-> "get", repo |-> ct, id |-> id, db |-> db,
                        result |-> r.result]
    /\ UNCHANGED <<clock, registry, files, calls, request_counts>>

UpdateItemStorage ==
    /\ last.op = "idle"
    /\ \E ct \in ContentTypes, id \in Ids, data \in UpdateData,
          db \in StorageOutcome :
         LET r == propagate(db, update_item(ct, id, data, clock, table), table)
         IN /\ table' = r.table
            /\ last' = [op |-> "update", repo |-> ct, id |-> id, db |-> db,
                        result |-> r.result]
    /\ UNCHANGED <<clock, registry, files, calls, request_counts>>

DeleteItemStorage ==
    /\ last.op = "idle"
    /\ \E ct \in ContentTypes, id \in Ids, db \in StorageOutcome :
         LET r == propagate(db, delete_item(ct, id, table), table)
         IN /\ table' = r.table
            /\ last' = [op |-> "delete", repo |-> ct, id |-> id, db |-> db,
                        result |-> r.result]
    /\ UNCHANGED <<clock, registry, files, calls, request_counts>>

ListItemsStorage ==
    /\ last.op = "idle"
    /\ \E ct \in ContentTypes, order \in ScanOrders(table),
          db \in StorageOutcome :
         LET r == propagate(db,
                      [table |-> table,
                       result |-> list_items(ct, MaxLimit, "", NoId, order,
                                             table)], table)
         IN /\ table' = r.table
            /\ last' = [op |-> "list", repo |-> ct, db |-> db,
                        result |-> r.result]
    /\ UNCHANGED <<clock, registry, files, calls, request_counts>>

GetNewsDetail ==
    /\ last.op = "idle"
    /\ \E news_id \in DetailIds, db \in DbOutcomes :
         LET r == get_news_detail(news_id, db, table)
         IN /\ \A id \in DOMAIN r.table :
                  Get(r.table[id], "view_count", 0) <= MaxViews
            /\ table' = r.table
            /\ last' = [op |-> "get_news_detail", id |-> news_id, db |-> db,
                        result |-> r.response]
    /\ UNCHANGED <<clock, registry, files, calls, request_counts>>

NextErrors ==
    \/ HandleApiError
    \/ CreateItemStorage
    \/ GetItemStorage
    \/ UpdateItemStorage
    \/ DeleteItemStorage
    \/ ListItemsStorage
    \/ GetNewsDetail
    \/ Return

SpecErrors == Init /\ [][NextErrors]_vars

(* ------------------------------- tokens -------------------------------- *)

\* JWTService.expiration_hours and the lifetime handle_login gives its
\* token, in hours; the clock of the token specification counts hours.
expiration_hours == 1
LoginHours == 24

\* base64.b64encode(text.encode()).decode(): the text in base64; NotBase64
\* is a string b64decode cannot turn into text.
b64encode(text) == [b64 |-> text]
NotBase64 == [junk |-> TRUE]

\* base64.b64decode(encoded.encode()).decode(): the text, or an exception.
b64decode(encoded) ==
    IF "b64" \in DOMAIN encoded THEN [ok |-> TRUE, value |-> encoded.b64]
    ELSE [ok |-> FALSE]

\* A JSON object and a JSON array as Python values.
JsonObject(d) == [dict |-> d]
JsonList == [list |-> <<>>]

\* json.dumps(value): the JSON text of value; NotJson is a text json.loads
\* rejects.
json_dumps(value) == [json |-> value]
NotJson == [text |-> "not json"]

\* json.loads(text): the value, or JSONDecodeError.
json_loads(text) ==
    IF "json" \in DOMAIN text THEN [ok |-> TRUE, value |-> text.json]
    ELSE [ok |-> FALSE]

\* datetime.isoformat() of the time t, with a UTC offset (aware) or
\* without one; NotIso is a string fromisoformat rejects.
isoformat(t, aware) == [iso |-> t, aware |-> aware]
NotIso == [bad |-> TRUE]

\* datetime.fromisoformat(s): the time and whether it carries an offset,
\* or ValueError.
fromisoformat(s) ==
    IF "iso" \in DOMAIN s
    THEN [ok |-> TRUE, value |-> s.iso, aware |-> s.aware]
    ELSE [ok |-> FALSE]

\* A token string: what it starts with, followed by the encoded part.
Token(prefix, encoded) == [prefix |-> prefix, encoded |-> encoded]

\* JWTService.create_token(payload): stamps exp and iat into the payload
\* and returns 'Bearer.' followed by the base64 of its JSON text.
create_token(payload, now) ==
    Token("Bearer.",
          b64encode(json_dumps(JsonObject(
              Merge(payload,
                    [exp |-> isoformat(now + expiration_hours, TRUE),
                     iat |-> isoformat(now, TRUE)])))))

\* verify_token that returns the payload without looking at exp.
verify_token_NoExpiry(token, now) ==
    LET decoded == b64decode(token.encoded)
        loaded == json_loads(decoded.value)
    IN IF token.prefix # "Bearer." THEN Raised("AuthenticationError")
       ELSE IF ~decoded.ok THEN Raised("AuthenticationError")
       ELSE IF ~loaded.ok THEN Raised("AuthenticationError")
       ELSE IF "dict" \notin DOMAIN loaded.value
       THEN Raised("AuthenticationError")
       ELSE Some(loaded.value.dict)

\* JWTService.verify_token(token): the payload, or AuthenticationError.
\* Every exception of the body - the format error, a failed decode, a
\* payload that is no object or has no 'exp', an 'exp' that is no ISO
\* time or has no offset - ends as AuthenticationError.
verify_token(token, now) ==
    LET decoded == b64decode(token.encoded)
        loaded == json_loads(decoded.value)
        payload == loaded.value.dict
        exp_time == fromisoformat(payload["exp"])
    IN IF token.prefix # "Bearer." THEN Raised("AuthenticationError")
       ELSE IF ~decoded.ok THEN Raised("AuthenticationError")
       ELSE IF ~loaded.ok THEN Raised("AuthenticationError")
       ELSE IF "dict" \notin DOMAIN loaded.value
       THEN Raised("AuthenticationError")
       ELSE IF "exp" \notin DOMAIN payload THEN Raised("AuthenticationError")
       ELSE IF ~exp_time.ok THEN Raised("AuthenticationError")
       ELSE IF ~exp_time.aware THEN Raised("AuthenticationError")
       ELSE IF now > exp_time.value THEN Raised("AuthenticationError")
       ELSE Some(payload)

\* create_simple_token(payload) of the login handler.
create_simple_token(payload) ==
    b64encode(json_dumps(JsonObject(
        [payload |-> JsonObject(payload), secret |-> "token-secret"])))

\* The payload handle_login puts into the token of a successful login.
login_payload(username, now) ==
    [username |-> username, role |-> "admin",
     exp |-> isoformat(now + LoginHours, FALSE),
     iat |-> isoformat(now, FALSE)]

\* handle_login(event, app_config) for a parsed body with both fields.
handle_login(username, password, now) ==
    IF username = "admin" /\ password = "admin123"
    THEN create_response(200,
             [message |-> "Login successful",
              token |-> create_simple_token(login_payload(username, now)),
              expiresIn |-> 86400])
    ELSE create_response(401, One("error", "Invalid credentials"))

\* The Authorization header: what it starts with and the part after the
\* first blank.
Header(scheme, token) == [scheme |-> scheme, token |-> token]

\* verify_admin_token(event, app_config): any exception yields False; the
\* expiry is compared only when the payload has a non-empty exp.
verify_admin_token(header, now) ==
    LET decoded == b64decode(header.token)
        loaded == json_loads(decoded.value)
        token_data == loaded.value.dict
        payload == IF "payload" \in DOMAIN token_data
                   THEN token_data["payload"].dict ELSE EmptyDict
        exp_time == fromisoformat(payload["exp"])
    IN IF header.scheme # "Bearer " THEN FALSE
       ELSE IF ~decoded.ok THEN FALSE
       ELSE IF ~loaded.ok THEN FALSE
       ELSE IF "dict" \notin DOMAIN loaded.value THEN FALSE
       ELSE IF Get(payload, "role", "") # "admin" THEN FALSE
       ELSE IF "exp" \notin DOMAIN payload THEN TRUE
       ELSE IF ~exp_time.ok THEN FALSE
       ELSE IF now > exp_time.value THEN FALSE
       ELSE TRUE

\* delete_news(news_id, event, app_config)
delete_news(news_id, authorized, db, tbl) ==
    IF ~authorized
    THEN [table |-> tbl,
          response |-> create_response(401, One("error", "Unauthorized"))]
    ELSE IF db = "unavailable"
    THEN [table |-> tbl,
          response |-> create_response(500,
                           One("error", "Database connection failed"))]
    ELSE IF db = "error"
    THEN [table |-> tbl,
          response |-> create_response(500,
                           One("error", "Database deletion failed"))]
    ELSE IF \/ news_id \notin DOMAIN tbl
            \/ Get(tbl[news_id], "content_type", "") # "news"
    THEN [table |-> tbl,
          response |-> create_response(404, One("error", "News not found"))]
    ELSE [table |-> db_delete_item(tbl, news_id),
          response |-> create_response(200,
                           One("message", "News deleted successfully"))]

\* The payloads handed to create_token.
TokenPayloads ==
    {EmptyDict,
     [user_id |-> "test-user", role |-> "admin"],
     [user_id |-> "test-user", exp |-> isoformat(0, TRUE)]}

\* The times up to now.
Earlier(now) == 0..now

\* Tokens a client can present at time now: tokens create_token issued at
\* an earlier time, and strings written by the client - without the
\* prefix, with another prefix, not base64, not JSON, a JSON array, an
\* object without exp, with an exp that is no time, with an exp without
\* offset, and with an exp of its own choice.
TokenArgs(now) ==
    {create_token(p, t) : p \in TokenPayloads, t \in Earlier(now)}
    \cup {Token("", NotBase64),
          Token("Bearer ", b64encode(json_dumps(JsonObject(
              [user_id |-> "test-user", exp |-> isoformat(MaxClock, TRUE)])))),
          Token("Bearer.", NotBase64),
          Token("Bearer.", b64encode(NotJson)),
          Token("Bearer.", b64encode(json_dumps(JsonList))),
          Token("Bearer.", b64encode(json_dumps(JsonObject(
              [user_id |-> "test-user"])))),
          Token("Bearer.", b64encode(json_dumps(JsonObject(
              [user_id |-> "test-user", exp |-> NotIso])))),
          Token("Bearer.", b64encode(json_dumps(JsonObject(
              [user_id |-> "test-user", exp |-> isoformat(MaxClock, FALSE)]))))}
    \cup {Token("Bearer.", b64encode(json_dumps(JsonObject(
              [user_id |-> "test-user", exp |-> isoformat(t, TRUE)])))) :
          t \in 0..MaxClock}

\* Authorization headers a client can send at time now: none, one with
\* the JWTService prefix, undecodable ones, the token of a login at an
\* earlier time, and self-made tokens for a user and for an admin with
\* an exp of any time, with an exp that is no time, and without exp.
HeaderArgs(now) ==
    {Header("Bearer ", create_simple_token(login_payload("admin", t))) :
        t \in Earlier(now)}
    \cup {Header("", NotBase64),
          Header("Bearer.", create_simple_token([role |-> "admin",
                                       exp |-> isoformat(MaxClock, FALSE)])),
          Header("Bearer ", NotBase64),
          Header("Bearer ", b64encode(NotJson)),
          Header("Bearer ", b64encode(json_dumps(JsonList))),
          Header("Bearer ", b64encode(json_dumps(JsonObject(
              [secret |-> "token-secret"])))),
          Header("Bearer ", create_simple_token([role |-> "user",
                                       exp |-> isoformat(MaxClock, FALSE)])),
          Header("Bearer ", create_simple_token([role |-> "admin",
                                                 exp |-> NotIso])),
          Header("Bearer ", create_simple_token([role |-> "admin"]))}
    \cup {Header("Bearer ", create_simple_token([role |-> "admin",
                                       exp |-> isoformat(t, a)])) :
          t \in 0..MaxClock, a \in BOOLEAN}

InitAuth ==
    /\ table = [k \in {} |-> EmptyDict]
    /\ clock = 0
    /\ last = Idle(NoCall)
    /\ registry = CATEGORY_DEFINITIONS
    /\ files = NoFiles
    /\ calls = NoCalls
    /\ request_counts = NoCounts

CreateToken ==
    /\ last.op = "idle"
    /\ \E payload \in TokenPayloads :
         last' = [op |-> "create_token", payload |-> payload, now |-> clock,
                  result |-> create_token(payload, clock)]
    /\ UNCHANGED <<table, clock, registry, files, calls, request_counts>>

VerifyToken ==
    /\ last.op = "idle"
    /\ \E token \in TokenArgs(clock) :
         last' = [op |-> "verify_token", token |-> token, now |-> clock,
                  result |-> verify_token(token, clock)]
    /\ UNCHANGED <<table, clock, registry, files, calls, request_counts>>

HandleLogin ==
    /\ last.op = "idle"
    /\ \E password \in {"admin123", "guess"} :
         last' = [op |-> "handle_login", password |-> password, now |-> clock,
                  result |-> handle_login("admin", password, clock)]
    /\ UNCHANGED <<table, clock, registry, files, calls, request_counts>>

AdminCreateNews ==
    /\ last.op = "idle"
    /\ \E header \in HeaderArgs(clock), uuid \in Ids :
         /\ NewsIdOf(uuid) \notin DOMAIN table
         /\ LET r == create_news(verify_admin_token(header, clock),
                                 [title |-> "t1", content |-> "c1"],
                                 uuid, clock, "ok", table)
            IN /\ table' = r.table
               /\ last' = [op |-> "create_news", header |-> header,
                           now |-> clock, db |-> "ok", result |-> r.response]
    /\ UNCHANGED <<clock, registry, files, calls, request_counts>>

AdminUpdateNews ==
    /\ last.op = "idle"
    /\ \E header \in HeaderArgs(clock), news_id \in NewsIds :
         LET r == update_news(news_id, verify_admin_token(header, clock),
                              One("status", "draft"), clock, "ok", table)
         IN /\ table' = r.table
            /\ last' = [op |-> "update_news", header |-> header,
                        now |-> clock, db |-> "ok", result |-> r.response]
    /\ UNCHANGED <<clock, registry, files, calls, request_counts>>

AdminDeleteNews ==
    /\ last.op = "idle"
    /\ \E header \in HeaderArgs(clock), news_id \in NewsIds :
         LET r == delete_news(news_id, verify_admin_token(header, clock),
                              "ok", table)
         IN /\ table' = r.table
            /\ last' = [op |-> "delete_news", header |-> header,
                        now |-> clock, db |-> "ok", result |-> r.response]
    /\ UNCHANGED <<clock, registry, files, calls, request_counts>>

NextAuth ==
    \/ Tick
    \/ CreateToken
    \/ VerifyToken
    \/ HandleLogin
    \/ AdminCreateNews
    \/ AdminUpdateNews
    \/ AdminDeleteNews
    \/ Return

SpecAuth == InitAuth /\ [][NextAuth]_vars

(* ---------------------------- rate limiting ---------------------------- *)

\* The argument of rate_limit(requests_per_minute) the handler is
\* decorated with.
requests_per_minute == 2

\* The number of requests of one client in one minute that the
\* specification follows.
MaxRequests == 3

\* event['requestContext']['identity']['sourceIp'] of the requests: two
\* addresses, and an event without one.
SourceIps == {Some("ip1"), Some("ip2"), None}

\* event.get('requestContext', {}).get('identity', {}).get('sourceIp',
\* 'unknown')
client_ip(sourceIp) == IF sourceIp = None THEN "unknown" ELSE sourceIp.value

RECURSIVE Sum(_)
\* sum(counts.values())
Sum(counts) ==
    IF DOMAIN counts = {} THEN 0
    ELSE LET m == CHOOSE k \in DOMAIN counts : TRUE
         IN counts[m] + Sum([k \in (DOMAIN counts) \ {m} |-> counts[k]])

\* counts with the entry of key k set to v.
Put(counts, k, v) ==
    [j \in (DOMAIN counts) \cup {k} |-> IF j = k THEN v ELSE counts[j]]

\* The wrapper of rate_limit around a handler that answers 200: the
\* client's buckets older than the previous minute are dropped, the bucket
\* of the current minute is incremented, and the request is refused with
\* 429 when the buckets that are left add up to more than
\* requests_per_minute.
rate_limit(sourceIp, current_time, counts) ==
    LET ip == client_ip(sourceIp)
        mine == IF ip \in DOMAIN counts THEN counts[ip]
                ELSE [m \in {} |-> 0]
        kept == [m \in {k \in DOMAIN mine : k >= current_time - 1} |-> mine[m]]
        bumped == Put(kept, current_time,
                      (IF current_time \in DOMAIN kept
                       THEN kept[current_time] ELSE 0) + 1)
    IN [request_counts |-> Put(counts, ip, bumped),
        response |->
           IF Sum(bumped) > requests_per_minute
           THEN create_error_response(IntArg(429),
                    StrArg(<<"Rate limit exceeded. Please try again later.">>),
                    None, None, current_time)
           ELSE create_response(IntArg(200), One("success", TRUE))]

\* The requests a client has sent in a minute, 0 when none is recorded.
Sent(ip, minute) ==
    IF ip \in DOMAIN calls /\ minute \in DOMAIN calls[ip]
    THEN calls[ip][minute] ELSE 0

\* A request reaches the decorated handler; calls keeps, per client and
\* minute, how many requests were sent.
Request ==
    /\ last.op = "idle"
    /\ \E sourceIp \in SourceIps :
         LET ip == client_ip(sourceIp)
             r == rate_limit(sourceIp, clock, request_counts)
         IN /\ Sent(ip, clock) < MaxRequests
            /\ request_counts' = r.request_counts
            /\ calls' = Put(calls, ip,
                            Put(IF ip \in DOMAIN calls THEN calls[ip]
                                ELSE [m \in {} |-> 0],
                                clock, Sent(ip, clock) + 1))
            /\ last' = [op |-> "rate_limit", client_ip |-> ip,
                        now |-> clock, result |-> r.response]
    /\ UNCHANGED <<table, clock, registry, files>>

NextRate ==
    \/ Tick
    \/ Request
    \/ Return

SpecRate == Init /\ [][NextRate]_vars

(* ------------------------------ claims --------------------------------- *)

\* id holds an item that a repository of contentType can see.
Visible(tbl, contentType, id) ==
    /\ id \in DOMAIN tbl
    /\ Get(tbl[id], "content_type", "") = contentType

\* The updatable fields that data carries.
Written(contentType, data) == get_updatable_fields(contentType) \cap DOMAIN data

\* C1: cross-type isolation - get_item_by_id on a repository of content
\* type B, for an id whose stored item has another content type, returns
\* None and never the item.
C1_CrossTypeIsolation ==
    (/\ last.op = "get"
     /\ last.id \in DOMAIN table
     /\ Get(table[last.id], "content_type", "") # last.repo)
    => last.result = None

\* A get through the news repository of an id stored as gallery.
C1_Witness ==
    /\ last.op = "get"
    /\ last.repo = "news"
    /\ last.id \in DOMAIN table
    /\ Get(table[last.id], "content_type", "") = "gallery"
    /\ last.result = None

\* C2: listing never returns a non-published item - every item in the
\* result of list_items or get_recent_items has status 'published'.
C2_ListOnlyPublished ==
    /\ last.op = "list" =>
         \A i \in DOMAIN last.result.items :
            last.result.items[i].status = "published"
    /\ last.op = "recent" =>
         \A i \in DOMAIN last.result : last.result[i].status = "published"

\* C3: get_recent_items(limit) returns the newest items in order - the
\* result has min(limit, n) of the n stored items of the repository's type,
\* sorted by created_at descending, and no stored item left out is newer
\* than one returned.  Stated for tables that hold nothing but published
\* items of the repository's own type, each under its own id.
C3_RecentIsNewest ==
    (/\ last.op = "recent"
     /\ \A k \in DOMAIN table :
           /\ table[k]["id"] = k
           /\ table[k]["content_type"] = last.repo
           /\ table[k]["status"] = "published")
    => LET res == last.result
           ids == {res[i].id : i \in DOMAIN res}
       IN /\ Len(res) = Min(last.limit, Cardinality(DOMAIN table))
          /\ ids \subseteq DOMAIN table
          /\ \A i, j \in DOMAIN res :
                i < j => res[i].created_at >= res[j].created_at
          /\ \A k \in (DOMAIN table) \ ids :
                \A i \in DOMAIN res :
                    table[k]["created_at"] <= res[i].created_at

\* C4: update no-op short-circuit - update_item on an existing item with
\* data carrying no updatable field returns True and writes nothing: the
\* table, updated_at included, is the same before and after.
C4_UpdateNoOp ==
    [][(/\ last'.op = "update"
        /\ Visible(table, last'.repo, last'.id)
        /\ Written(last'.repo, last'.data) = {})
       => (last'.result = TRUE /\ table' = table)]_vars

\* An update carrying only non-updatable fields has returned True at a
\* time later than the item's updated_at, which it left alone.
C4_Witness ==
    /\ last.op = "update"
    /\ last.result = TRUE
    /\ DOMAIN last.data # {}
    /\ Written(last.repo, last.data) = {}
    /\ Visible(table, last.repo, last.id)
    /\ table[last.id]["updated_at"] < last.now

\* C5: update whitelist - update_item on an existing item sets exactly the
\* updatable fields that data carries, refreshes updated_at when there is
\* one, and leaves id, content_type, created_at, status, every other
\* attribute and every other record as they were.
C5_UpdateWhitelist ==
    [][(/\ last'.op = "update"
        /\ Visible(table, last'.repo, last'.id))
       => LET old == table[last'.id]
              w == Written(last'.repo, last'.data)
          IN /\ last'.result = TRUE
             /\ DOMAIN table' = DOMAIN table
             /\ \A k \in DOMAIN table \ {last'.id} : table'[k] = table[k]
             /\ DOMAIN table'[last'.id] = (DOMAIN old) \cup w
             /\ \A f \in w : table'[last'.id][f] = last'.data[f]
             /\ \A f \in (DOMAIN old) \ (w \cup {"updated_at"}) :
                    table'[last'.id][f] = old[f]
             /\ w # {} => table'[last'.id]["updated_at"] = last'.now
             /\ w = {} => table'[last'.id]["updated_at"] = old["updated_at"]]_vars

\* An update carrying the title together with status, id and content_type
\* has changed the title and updated_at and kept the item's status.
C5_Witness ==
    /\ last.op = "update"
    /\ last.result = TRUE
    /\ {"title", "status", "id", "content_type"} \subseteq DOMAIN last.data
    /\ Visible(table, last.repo, last.id)
    /\ table[last.id]["title"] = last.data["title"]
    /\ table[last.id]["status"] # last.data["status"]
    /\ table[last.id]["updated_at"] = last.now
    /\ table[last.id]["created_at"] < last.now

\* C6: update of a missing item - update_item for an id that is not in the
\* table, or holds an item of another content type, returns False and
\* leaves the table unchanged; no record is created.
C6_UpdateMissing ==
    [][(/\ last'.op = "update"
        /\ ~Visible(table, last'.repo, last'.id))
       => (last'.result = FALSE /\ table' = table)]_vars

\* An update carrying an updatable field, for an id the table does not
\* hold, has returned False and the id is still not there.
C6_Witness ==
    /\ last.op = "update"
    /\ last.result = FALSE
    /\ Written(last.repo, last.data) # {}
    /\ last.id \notin DOMAIN table

\* A delete of the same id through the same repository directly after a
\* delete that returned True returns False, and the id is absent.
DeleteAfterDelete ==
    (/\ last.op = "delete"
     /\ last.prev.op = "delete"
     /\ last.prev.repo = last.repo
     /\ last.prev.id = last.id
     /\ last.prev.result = TRUE)
    => (last.result = FALSE /\ last.id \notin DOMAIN table)

\* C7: delete semantics - delete_item returns True and removes the record
\* (and nothing else) when the item exists in the repository's scope,
\* returns False and leaves the table unchanged when it does not; delete
\* followed by delete of the same id returns True, then False.
C7_DeleteSemantics ==
    [][(last'.op = "delete")
       => /\ Visible(table, last'.repo, last'.id)
             => (/\ last'.result = TRUE
                 /\ table' = [k \in DOMAIN table \ {last'.id} |-> table[k]])
          /\ ~Visible(table, last'.repo, last'.id)
             => (last'.result = FALSE /\ table' = table)
          /\ DeleteAfterDelete']_vars

\* The second of two deletes of one id has returned False after the first
\* returned True.
C7_Witness ==
    /\ last.op = "delete"
    /\ last.prev.op = "delete"
    /\ last.prev.repo = last.repo
    /\ last.prev.id = last.id
    /\ last.prev.result = TRUE
    /\ last.result = FALSE
    /\ last.id \notin DOMAIN table

\* The fields create_item stamps on a new item.
StampedFields == {"id", "content_type", "created_at", "updated_at", "status"}

\* C8: create/get round trip - after create_item(data) returned id i,
\* get_item_by_id(i) on the same repository returns an item that holds
\* every field of data with its value, with status 'published'.  Stated
\* for the inputs that carry none of the stamped fields.
C8_CreateGetRoundTrip ==
    (/\ last.op = "create"
     /\ DOMAIN last.data \cap StampedFields = {})
    => LET got == get_item_by_id(last.repo, last.result, table)
       IN /\ got # None
          /\ \A k \in DOMAIN last.data :
                k \in DOMAIN got /\ got[k] = last.data[k]
          /\ got.id = last.result
          /\ got.status = "published"
          /\ got.created_at = last.now
          /\ got.updated_at = last.now

\* C9: create stamps the record - after create_item(data) returned id i
\* the table holds under key i a record with id i, the repository's
\* content_type, status 'published' and created_at = updated_at, whichever
\* keys data carries.
C9_CreateStamps ==
    last.op = "create"
    => /\ last.result \in DOMAIN table
       /\ table[last.result]["id"] = last.result
       /\ table[last.result]["content_type"] = last.repo
       /\ table[last.result]["status"] = "published"
       /\ table[last.result]["created_at"] = table[last.result]["updated_at"]

\* C10: create never overwrites - a create_item call, with or without an
\* item_id, leaves every record the table held before the call in place
\* and unchanged.
C10_CreateNeverOverwrites ==
    [][(last'.op = "create")
       => \A k \in DOMAIN table :
             k \in DOMAIN table' /\ table'[k] = table[k]]_vars

\* c is one of the entries of the allowed list of content_type.
Allowed(defs, content_type, c) ==
    \E i \in DOMAIN get_allowed_categories(content_type, defs) :
        get_allowed_categories(content_type, defs)[i] = c

\* C12: category validity - for every content type T, known or not, and
\* every category C, validate_category_value(T, C) is True if and only if C
\* is empty or absent or C is a member of get_allowed_categories(T), in
\* every registry that add_category / remove_category calls lead to.
C12_CategoryValidity ==
    last.op = "validate_category_value" =>
        (last.result = TRUE
           <=> \/ last.category = None
               \/ last.category.value = ""
               \/ Allowed(registry, last.content_type, last.category.value))

\* A category added at run time is validated as allowed, under a
\* content-type argument written in capitals.
C12_Witness ==
    /\ last.op = "validate_category_value"
    /\ last.content_type = "NEWS"
    /\ last.category = Some("extra")
    /\ last.result = TRUE

\* C13: the registry is total - for every content-type string each of the
\* seven registry functions returns a value, and for a string outside the
\* enum they return the empty list, None, False, True only for an empty
\* category, None, False and False.
C13_RegistryTotal ==
    (/\ last.op # "idle"
     /\ "content_type" \in DOMAIN last
     /\ ~IsContentType(last.content_type))
    => CASE last.op = "get_allowed_categories" -> last.result = <<>>
         [] last.op = "get_default_category" -> last.result = None
         [] last.op = "is_category_required" -> last.result = FALSE
         [] last.op = "validate_category_value" ->
                last.result = Falsy(last.category)
         [] last.op = "normalize_category" -> last.result = None
         [] last.op = "add_category" -> last.result = FALSE
         [] last.op = "remove_category" -> last.result = FALSE

\* A non-empty category is validated against an unknown content type.
C13_Witness ==
    /\ last.op = "validate_category_value"
    /\ last.content_type = "video"
    /\ last.category = Some("etc")
    /\ last.result = FALSE

\* The list has no entry twice.
NoDuplicates(s) == \A i, j \in DOMAIN s : s[i] = s[j] => i = j

\* C14: registry edits - add_category(T, c) returns True exactly when c was
\* not already allowed for the known type T, and afterwards c is allowed; a
\* repeated add returns False; remove_category(T, c) returns True only when
\* c was allowed, and afterwards c is not allowed, and returns False for a
\* category that is not present; the allowed list of a known type never
\* holds a duplicate and is never empty.
C14_RegistryEdits ==
    /\ [](\A t \in ContentTypes :
            /\ registry[t].allowed_categories # <<>>
            /\ NoDuplicates(registry[t].allowed_categories))
    /\ [][/\ (last'.op = "add_category" /\ IsContentType(last'.content_type)) =>
              /\ last'.result = ~Allowed(registry, last'.content_type,
                                         last'.category)
              /\ Allowed(registry', last'.content_type, last'.category)
              /\ (/\ last'.prev.op = "add_category"
                  /\ lower(last'.prev.content_type) = lower(last'.content_type)
                  /\ last'.prev.category = last'.category)
                 => last'.result = FALSE
          /\ last'.op = "remove_category" =>
              /\ last'.result = TRUE =>
                    /\ Allowed(registry, last'.content_type, last'.category)
                    /\ ~Allowed(registry', last'.content_type, last'.category)
              /\ ~Allowed(registry, last'.content_type, last'.category)
                    => last'.result = FALSE]_vars

\* remove_category keeps the last remaining news category, in a registry
\* whose gallery list has been extended by add_category.
C14_Witness ==
    /\ last.op = "remove_category"
    /\ last.content_type = "news"
    /\ last.result = FALSE
    /\ registry["news"].allowed_categories = <<last.category>>
    /\ Allowed(registry, "gallery", "extra")

C11_StoredCategoryAllowed ==
    \A id \in DOMAIN table :
        \/ Get(table[id], "category", "") = ""
        \/ Allowed(registry, Get(table[id], "content_type", ""),
                   Get(table[id], "category", ""))

\* The pages 1..page of items under limit, one after the other.
RECURSIVE PagesUpTo(_, _, _)
PagesUpTo(items, page, limit) ==
    IF page = 0 THEN <<>>
    ELSE PagesUpTo(items, page - 1, limit)
         \o paginate_list(items, page, limit).items

\* C15: pagination determinism - over a fixed sorted list, for every limit
\* L >= 1 and page p >= 1, the pages of paginate_list are disjoint
\* consecutive windows: pages 1..p in order equal page 1 with limit p * L
\* (page 1 and page 2 with limit L equal page 1 with limit 2L); a page holds
\* at most L items; has_next is True exactly when a later page is
\* non-empty.
C15_PaginationDeterminism ==
    last.op = "paginate_list" =>
        LET items == last.items
            page == last.page
            limit == last.limit
        IN /\ Len(last.result.items) <= limit
           /\ PagesUpTo(items, page - 1, limit) \o last.result.items
                 = paginate_list(items, 1, page * limit).items
           /\ \A q \in 1..MaxPage :
                 q # page =>
                   Range(paginate_list(items, q, limit).items)
                     \cap Range(last.result.items) = {}
           /\ last.result.pagination.has_next
                 = (\E q \in (page + 1)..(Len(items) + 1) :
                       paginate_list(items, q, limit).items # <<>>)

\* Page 2 with limit 2 of a list of four items.
C15_Witness ==
    /\ last.op = "paginate_list"
    /\ last.items = <<1, 2, 3, 4>>
    /\ last.page = 2
    /\ last.limit = 2
    /\ last.result.items = <<3, 4>>
    /\ last.result.pagination.has_next = FALSE

\* The integer an argument stands for, where it stands for one.
ValueOf(arg) == ToInt(arg).value

\* C16: pagination parameter validation - for page and limit given as
\* integers or as numeric strings, validate_pagination_params raises
\* ValidationError when page < 1 or limit < 1 and otherwise returns
\* (page, min(limit, 50)); None and '' default to page 1 and limit 10.
C16_PaginationParams ==
    (/\ last.op = "validate_pagination_params"
     /\ \A arg \in {last.page, last.limit} :
           arg \in {None, StrArg(<<>>)} \/ ToInt(arg).ok)
    => LET page == IF last.page \in {None, StrArg(<<>>)} THEN DefaultPage
                   ELSE ValueOf(last.page)
           limit == IF last.limit \in {None, StrArg(<<>>)} THEN DefaultLimit
                    ELSE ValueOf(last.limit)
       IN last.result = IF page < 1 \/ limit < 1
                        THEN Raised("ValidationError")
                        ELSE Returned(page, Min(limit, LimitCeiling))

\* C17: batch file delete is total and per-key - for every non-empty list
\* of keys and every outcome of the storage call, delete_files returns,
\* without raising, a map with an entry for every input key and for no
\* other key: True for the keys the storage reported deleted, False for
\* all others.
C17_DeleteFilesTotal ==
    (last.op = "delete_files" /\ last.file_keys # <<>>)
    => /\ "returned" \in DOMAIN last.result
       /\ DOMAIN last.result.returned = Range(last.file_keys)
       /\ \A k \in Range(last.file_keys) :
             last.result.returned[k]
               = (/\ last.outcome.kind = "response"
                  /\ k \in last.outcome.Deleted
                  /\ k \notin last.outcome.Errors)

\* C18: key extraction round trip - for every file_key issued by
\* generate_presigned_upload_url, extract_file_key_from_url of the returned
\* file_url yields that file_key; for every URL that does not point at
\* this deployment's bucket it yields None.
C18_ExtractRoundTrip ==
    last.op = "extract_file_key_from_url" =>
        /\ \A i \in files.issued :
              last.file_url = Some(i.file_url)
                => last.result = Some(i.file_key)
        /\ (\/ last.file_url = None
            \/ ~PointsAtBucket(last.file_url.value))
           => last.result = None

\* C19: delete drives file cleanup - when delete_gallery succeeds for an
\* item whose image_url resolves to a storage key, the record is removed
\* and a file deletion for that key has been sent to the bucket; a delete
\* that did not succeed sends none.
C19_DeleteCleansFiles ==
    last.op = "delete_gallery" =>
        IF last.result.statusCode = 200
        THEN /\ last.id \notin DOMAIN table
             /\ extract_file_key_from_url(Some(last.item.image_url)) # None
                  => extract_file_key_from_url(Some(last.item.image_url)).value
                       \in files.requested
        ELSE last.id \in DOMAIN table <=> last.item # None

\* C25: status is freely settable by update - an update that sets status
\* to 'draft' or to 'published' on an item of the repository takes effect
\* on the stored item, and no stored item ever has a status outside
\* {published, draft}.
C25_StatusSettable ==
    /\ [](\A id \in DOMAIN table :
            Get(table[id], "status", "published") \in {"published", "draft"})
    /\ [][(/\ last'.op = "update"
           /\ "status" \in DOMAIN last'.data
           /\ Visible(table, last'.repo, last'.id))
          => /\ last'.id \in DOMAIN table'
             /\ Get(table'[last'.id], "status", "") = last'.data["status"]]_vars

\* C26: cross-type isolation covers writes - update_item and delete_item
\* called on a repository whose content type differs from that of the
\* stored record return False and leave the table unchanged.
C26_CrossTypeWrites ==
    [][(/\ last'.op \in {"update", "delete"}
        /\ last'.id \in DOMAIN table
        /\ Get(table[last'.id], "content_type", "") # last'.repo)
       => /\ last'.result = FALSE
          /\ table' = table]_vars

\* The gallery repository was asked to delete an id that holds a news
\* item; the item is still stored.
C26_Witness ==
    /\ last.op = "delete"
    /\ last.repo = "gallery"
    /\ last.result = FALSE
    /\ last.id \in DOMAIN table
    /\ Get(table[last.id], "content_type", "") = "news"

\* C28: a 201 means persisted - whenever create_news answers 201 with a
\* new item, that item is in the table under the returned id.
C28_CreatedIsStored ==
    (last.op = "create_news" /\ last.result.statusCode = 201)
    => /\ last.result.body.news.id \in DOMAIN table
       /\ table[last.result.body.news.id] = last.result.body.news

\* A finished update and a finished delete of the same id.
RacePairs ==
    {pair \in (DOMAIN calls) \X (DOMAIN calls) :
        /\ calls[pair[1]].op = "update" /\ calls[pair[1]].pc = "done"
        /\ calls[pair[2]].op = "delete" /\ calls[pair[2]].pc = "done"
        /\ calls[pair[1]].id = calls[pair[2]].id}

\* C21: update/delete race - in every interleaving of a concurrent
\* update_item(id, data) and delete_item(id) on an existing item, an update
\* whose storage write lands when the record is gone reports False, and
\* once both have completed and the delete returned True, no record with
\* that id is in the table.
C21_UpdateDeleteRace ==
    /\ [](\A pair \in RacePairs :
            calls[pair[2]].result = TRUE => calls[pair[2]].id \notin DOMAIN table)
    /\ [][\A p \in DOMAIN calls :
            (/\ calls[p].op = "update"
             /\ calls[p].pc # "done"
             /\ calls[p].id \notin DOMAIN table
             /\ calls'[p].pc = "done")
            => calls'[p].result = FALSE]_vars

\* C27: concurrent deletes are decided once - when two delete_item(id)
\* calls of one repository for the same existing id run concurrently,
\* exactly one of them returns True and the other returns False.
C27_DeleteDecidedOnce ==
    \A p \in DOMAIN calls, q \in DOMAIN calls :
        (/\ p # q
         /\ calls[p].op = "delete" /\ calls[q].op = "delete"
         /\ calls[p].id = calls[q].id /\ calls[p].repo = calls[q].repo
         /\ calls[p].existed /\ calls[q].existed
         /\ calls[p].pc = "done" /\ calls[q].pc = "done")
        => calls[p].result # calls[q].result

\* The status the error stands for: 400 for a validation error of either
\* layer, 404 for a not-found error, its own status_code for another
\* APIError, 400 for ValueError and KeyError, 500 for anything else.
ExpectedStatus(error) ==
    IF error.class = "ValidationError" THEN 400
    ELSE IF error.class \in {"NotFoundError", "ResourceNotFoundError"} THEN 404
    ELSE IF error.base = "APIError" THEN error.status_code
    ELSE IF error.base \in {"ValueError", "KeyError"} THEN 400
    ELSE 500

\* C22: errors map to their HTTP status - the response of handle_api_error
\* has statusCode 400 for a validation error (the CRUD layer's included),
\* 404 for a not-found error, the error's own status_code for any other
\* APIError, 400 for ValueError / KeyError and 500 for any other exception.
C22_ErrorStatus ==
    last.op = "handle_api_error"
    => last.result.statusCode = IntArg(ExpectedStatus(last.error))

\* The calls that reach for the table, and whether the call surfaced an
\* error: a repository method by raising, a handler by a 5xx response.
StorageOps == {"create", "get", "update", "delete", "list", "get_news_detail"}

SurfacedError(call) ==
    IF call.op = "get_news_detail" THEN call.result.statusCode >= 500
    ELSE "raised" \in DOMAIN call.result

\* C23: storage errors propagate - when the table fails during a create,
\* get, update, delete or list, the operation surfaces an error to its
\* caller, leaves the table unchanged, and never answers with substituted
\* data for the failed read or with a success for the failed write.
C23_StorageErrorsPropagate ==
    [][(last'.op \in StorageOps /\ last.op = "idle" /\ last'.db # "ok")
       => /\ table' = table
          /\ SurfacedError(last')]_vars

\* The token has the shape verify_token reads: the prefix 'Bearer.', then
\* the base64 of the JSON text of an object whose exp is an ISO time with
\* offset.
IssuedShape(token) ==
    /\ token.prefix = "Bearer."
    /\ "b64" \in DOMAIN token.encoded
    /\ "json" \in DOMAIN token.encoded.b64
    /\ "dict" \in DOMAIN token.encoded.b64.json
    /\ "exp" \in DOMAIN token.encoded.b64.json.dict
    /\ "iso" \in DOMAIN token.encoded.b64.json.dict["exp"]
    /\ token.encoded.b64.json.dict["exp"].aware

\* The time the exp of a token of the issued shape names.
ExpOf(token) == token.encoded.b64.json.dict["exp"].iso

UnexpiredAdmin(header, now) ==
    /\ header.scheme = "Bearer "
    /\ "b64" \in DOMAIN header.token
    /\ "json" \in DOMAIN header.token.b64
    /\ "dict" \in DOMAIN header.token.b64.json
    /\ "payload" \in DOMAIN header.token.b64.json.dict
    /\ LET payload == header.token.b64.json.dict["payload"].dict
       IN /\ Get(payload, "role", "") = "admin"
          /\ "exp" \in DOMAIN payload
          /\ "iso" \in DOMAIN payload["exp"]
          /\ payload["exp"].iso >= now

AdminOps == {"create_news", "update_news", "delete_news"}

\* C29: the admin check requires an unexpired admin token - an admin-only
\* operation (create, update, delete) whose Authorization header does not
\* carry a decodable token with role 'admin' and an exp that is present
\* and not earlier than the current time answers 401 and leaves the table
\* unchanged.
C29_AdminNeedsUnexpiredToken ==
    [][(/\ last.op = "idle"
        /\ last'.op \in AdminOps
        /\ ~UnexpiredAdmin(last'.header, last'.now))
       => /\ last'.result.statusCode = 401
          /\ table' = table]_vars

\* C30: the rate limit is per client and per minute - under
\* rate_limit(requests_per_minute), a client that has sent at most
\* requests_per_minute requests in every one-minute bucket is not
\* answered 429, whatever other clients send.
C30_RateLimitPerMinute ==
    (last.op = "rate_limit" /\ last.result.statusCode = IntArg(429))
    => \E minute \in DOMAIN calls[last.client_ip] :
          calls[last.client_ip][minute] > requests_per_minute

====
